---- MODULE Spec2Model ----
(***************************************************************************)
(* Sliding-window circuit breaker of joshiaj7/go-circuit-breaker.          *)
(*                                                                         *)
(* Time is counted in whole minutes since Go's zero time                   *)
(* (0001-01-01T00:00Z), which is the origin time.Truncate rounds from.     *)
(* Durations are whole minutes.  Go's int is modelled as a two's           *)
(* complement integer of IntBits bits.  The store is the Cache wrapper     *)
(* over an Adapter: go-cache, or an adapter whose IncrementInt creates     *)
(* the key it is given.  A Cache is the repository's, whose GetMulti       *)
(* returns a map[string]interface{}, or one whose GetMulti returns the     *)
(* map[string]int that CalculateWindowValue asserts.                       *)
(***************************************************************************)
EXTENDS Integers, Sequences, FiniteSets, TLC

VARIABLES
    cb,        \* the circuitBreaker struct
    store,     \* the items of the adapter behind cb.Cache: key -> [val, ttl,
               \* exp]; an item stays here after it has expired
    now,       \* wall clock, minutes since the zero time
    ret,       \* the last call: [op, arg, val, err, at]
    calls,     \* the store calls the last call issued, in order
    log,       \* history: the UpdateLatestBucketsValue calls that reached
               \* the store, as [t, amount, failedAt]
    fault,     \* the bucket index whose increment the store fails, 0 if none
    ticks,     \* number of clock advances so far
    flags,     \* history: per flag key, the last UpdateTrip or
               \* UpdateTripWarning that reached the store, as [val, at]
    inflight,  \* the concurrent callers inside UpdateLatestBucketsValue:
               \* caller -> [amount, t, i], i the bucket it increments next
    loop       \* the GenerateKeys call that runs statement by statement:
               \* [pc, i, endTime, startTime, result]; once it has returned,
               \* result is the list it returned

vars ==
    <<cb, store, now, ret, calls, log, fault, ticks, flags, inflight, loop>>

----------------------------------------------------------------------------
(* Bounds of the model *)

IntBits == 12
MaxTicks == 3
MaxUpdates == 2
MaxCounter == 25
MaxCallers == 3
MaxKeys == 8

(* Program constants *)

Minute == 1
Hour == 60
WarningAlertKeyExpiration == 720
\* the cache's own default expiration (README: 5 minutes)
ExpirationDuration == 5

MaxInt == 2^(IntBits - 1) - 1
MinInt == -(2^(IntBits - 1))

\* 2023-05-12T10:12Z and 2023-05-12T00:00Z, the instants of the fixtures
T1012 == 1063658052
T0000 == 1063657440

----------------------------------------------------------------------------
(* Go int arithmetic *)

WrapInt(n) == ((n - MinInt) % 2^IntBits) + MinInt

AddInt(a, b) == WrapInt(a + b)

----------------------------------------------------------------------------
(* time.Time and time.Duration *)

\* t.Truncate(d): round t down to a multiple of d since the zero time;
\* t itself when d <= 0
Truncate(t, d) == IF d <= 0 THEN t ELSE t - (t % d)

Min(a, b) == IF a < b THEN a ELSE b

IsLeap(y) == (y % 4 = 0) /\ ((y % 100 # 0) \/ (y % 400 = 0))

DaysIn(y, m) ==
    IF m = 2 THEN (IF IsLeap(y) THEN 29 ELSE 28)
    ELSE IF m \in {4, 6, 9, 11} THEN 30 ELSE 31

\* day of the year (0-based) -> <<month, day of month>>
RECURSIVE MonthDay(_, _, _)
MonthDay(y, m, yday) ==
    IF yday < DaysIn(y, m) THEN <<m, yday + 1>>
    ELSE MonthDay(y, m + 1, yday - DaysIn(y, m))

\* the civil date of a day number counted from 0001-01-01
CivilDate(days) ==
    LET n400 == days \div 146097
        d1   == days % 146097
        n100 == Min(d1 \div 36524, 3)
        d2   == d1 - n100 * 36524
        n4   == d2 \div 1461
        d3   == d2 % 1461
        n1   == Min(d3 \div 365, 3)
        yday == d3 - n1 * 365
        y    == 400 * n400 + 100 * n100 + 4 * n4 + n1 + 1
        md   == MonthDay(y, 1, yday)
    IN <<y, md[1], md[2]>>

Pad(n, width) ==
    IF width = 4
    THEN (IF n < 10 THEN "000" ELSE IF n < 100 THEN "00"
          ELSE IF n < 1000 THEN "0" ELSE "") \o ToString(n)
    ELSE (IF n < 10 THEN "0" ELSE "") \o ToString(n)

\* t.Format(TimePointStrFormat), layout "200601021504"
FormatTimePoint(t) ==
    LET date == CivilDate(t \div 1440)
        hm   == t % 1440
    IN Pad(date[1], 4) \o Pad(date[2], 2) \o Pad(date[3], 2)
         \o Pad(hm \div 60, 2) \o Pad(hm % 60, 2)

\* regexp `^\d+(h|m)` applied to d.String(): "4h0m0s" -> "4h",
\* "1h30m0s" -> "1h", "5m0s" -> "5m", "0s" -> ""
ParseNameFromDuration(d) ==
    IF d >= Hour THEN ToString(d \div Hour) \o "h"
    ELSE IF d > 0 THEN ToString(d) \o "m"
    ELSE ""

----------------------------------------------------------------------------
(* Bucket *)

NewBucket(duration) ==
    [Duration |-> duration, Name |-> ParseNameFromDuration(duration)]

DefaultBucket ==
    <<NewBucket(4 * Hour), NewBucket(Hour), NewBucket(5 * Minute),
      NewBucket(Minute)>>

\* sort.Slice with less(i, j) = Duration[i] > Duration[j]
RECURSIVE InsertDesc(_, _)
InsertDesc(b, s) ==
    IF s = <<>> THEN <<b>>
    ELSE IF Head(s).Duration >= b.Duration
         THEN <<Head(s)>> \o InsertDesc(b, Tail(s))
         ELSE <<b>> \o s

\* SortBuckets leaving the list in the order it was given
SortBuckets_Unsorted(s) == s

\* SortBuckets putting the list in the opposite of the order it was given
SortBuckets_Reversed(s) == [i \in 1..Len(s) |-> s[Len(s) + 1 - i]]

RECURSIVE SortBuckets(_)
SortBuckets(s) ==
    IF s = <<>> THEN <<>> ELSE InsertDesc(Head(s), SortBuckets(Tail(s)))

----------------------------------------------------------------------------
(* circuitBreaker: construction and keys *)

setTripKey(featureName, windowStr) ==
    "cb-trip-" \o featureName \o "-" \o windowStr

setWarningAlertKey(featureName, windowStr) ==
    "cb-warning_alert-" \o featureName \o "-" \o windowStr

\* NewCircuitBreaker leaving Threshold at the zero value of int
NewCircuitBreaker_Zero(cache, buckets, cacheTTL, featureName, windowDuration) ==
    LET windowStr == ParseNameFromDuration(windowDuration)
    IN [Active            |-> TRUE,
        Cache             |-> cache,
        Buckets           |-> SortBuckets(IF Len(buckets) = 0
                                          THEN DefaultBucket ELSE buckets),
        CacheTTL          |-> cacheTTL,
        FeatureName       |-> featureName,
        Threshold         |-> 0,
        WarningThreshold  |-> MaxInt,
        TripKey           |-> setTripKey(featureName, windowStr),
        WarningAlertKey   |-> setWarningAlertKey(featureName, windowStr),
        WindowDuration    |-> windowDuration,
        WindowDurationStr |-> windowStr]

NewCircuitBreaker(cache, buckets, cacheTTL, featureName, windowDuration) ==
    LET windowStr == ParseNameFromDuration(windowDuration)
    IN [Active            |-> TRUE,
        Cache             |-> cache,
        Buckets           |-> SortBuckets(IF Len(buckets) = 0
                                          THEN DefaultBucket ELSE buckets),
        CacheTTL          |-> cacheTTL,
        FeatureName       |-> featureName,
        Threshold         |-> MaxInt,
        WarningThreshold  |-> MaxInt,
        TripKey           |-> setTripKey(featureName, windowStr),
        WarningAlertKey   |-> setWarningAlertKey(featureName, windowStr),
        WindowDuration    |-> windowDuration,
        WindowDurationStr |-> windowStr]

getTimePointKey(c, bucketName, timestamp) ==
    "cb-" \o c.FeatureName \o "-" \o c.WindowDurationStr \o "-"
      \o bucketName \o "-" \o FormatTimePoint(timestamp)

\* StepBack with the loop condition > in place of >=: a bucket that starts
\* exactly at the window's lower bound is not stepped to
StepBack_Strict(endTime, startTime, d) ==
    LET n == IF endTime - d > startTime
             THEN (endTime - startTime - 1) \div d ELSE 0
    IN [k \in 1..n |-> endTime - k * d]

\* the inner loop of GenerateKeys for one bucket of duration d > 0: it steps
\* endTime back by d while endTime - d >= startTime, which is
\* (endTime - startTime) \div d times; the time points stepped to, newest
\* first
StepBack(endTime, startTime, d) ==
    LET n == IF endTime - d >= startTime
             THEN (endTime - startTime) \div d ELSE 0
    IN [k \in 1..n |-> endTime - k * d]

\* WalkBuckets with endTime reset for every bucket: each tier steps back from
\* the head's time instead of from where the coarser tier stopped
RECURSIVE WalkBuckets_FromHead(_, _, _, _)
WalkBuckets_FromHead(bs, i, endTime, startTime) ==
    IF i > Len(bs) THEN <<>>
    ELSE LET steps == StepBack(endTime, startTime, bs[i].Duration)
         IN [k \in 1..Len(steps) |-> <<i, steps[k]>>]
              \o WalkBuckets_FromHead(bs, i + 1, endTime, startTime)

\* the outer loop of GenerateKeys over buckets i..Len: the time points
\* <<bucket index, timestamp>> appended after the head
RECURSIVE WalkBuckets(_, _, _, _)
WalkBuckets(bs, i, endTime, startTime) ==
    IF i > Len(bs) THEN <<>>
    ELSE LET steps == StepBack(endTime, startTime, bs[i].Duration)
             last  == IF steps = <<>> THEN endTime ELSE steps[Len(steps)]
         IN [k \in 1..Len(steps) |-> <<i, steps[k]>>]
              \o WalkBuckets(bs, i + 1, last, startTime)

\* GenerateKeys as time points <<bucket index, timestamp>>
TimePoints(c, currentTime) ==
    LET endTime   == Truncate(currentTime, c.Buckets[1].Duration)
        startTime == Truncate(currentTime - c.WindowDuration, Minute)
    IN <<<<1, endTime>>>> \o WalkBuckets(c.Buckets, 1, endTime, startTime)

GenerateKeys(c, currentTime) ==
    LET tp == TimePoints(c, currentTime)
    IN [k \in 1..Len(tp) |->
          getTimePointKey(c, c.Buckets[tp[k][1]].Name, tp[k][2])]

----------------------------------------------------------------------------
(* Cache: the wrapper around an Adapter.  ch is the cache struct            *)
(* [Adapter, ExpirationDuration], st the adapter's items, t the instant of  *)
(* the call.  An item is [val, ttl, exp]: the value, the duration it was    *)
(* stored with and the instant it expires.                                  *)

NoValue == "nil"

\* the two adapters: go-cache, the in-memory adapter of the tests and the
\* README, and an adapter whose IncrementInt creates an absent item
GoCache == "go-cache"
Creating == "creating"

\* the dynamic type of the value GetMulti returns as an interface{}
MapOfAny == "map[string]interface {}"
MapOfInt == "map[string]int"

\* the repository's cache: its GetMulti builds a map[string]interface{}
NewCache(adapter, expirationDuration) ==
    [Adapter |-> adapter, ExpirationDuration |-> expirationDuration,
     Results |-> MapOfAny, GetErr |-> "nil"]

\* a Cache whose GetMulti returns a map[string]int, as the mock of the
\* breaker's tests does
NewIntCache(adapter, expirationDuration) ==
    [Adapter |-> adapter, ExpirationDuration |-> expirationDuration,
     Results |-> MapOfInt, GetErr |-> "nil"]

\* an error of a store's own, other than ErrCacheMiss
GetFailure == "connection refused"

\* a Cache whose Get fails for a reason of its own whatever it holds
NewFailingCache(adapter, expirationDuration) ==
    [Adapter |-> adapter, ExpirationDuration |-> expirationDuration,
     Results |-> MapOfInt, GetErr |-> GetFailure]

\* the keys the adapter still answers for: an item is expired once the clock
\* is past its expiration
Live(st, t) == {k \in DOMAIN st : t <= st[k].exp}

ItemNotFound(key) == "Item " \o key \o " not found"

AdapterSet(st, t, key, value, d) ==
    [k \in DOMAIN st \cup {key} |->
       IF k = key THEN [val |-> value, ttl |-> d, exp |-> t + d] ELSE st[k]]

\* AdapterIncrementInt storing val under an absent key whatever the adapter
AdapterIncrementInt_Creates(ch, st, t, key, val) ==
    IF key \in Live(st, t)
    THEN LET new == AddInt(st[key].val, val)
         IN [store |-> [st EXCEPT ![key].val = new], val |-> new,
             err |-> "nil"]
    ELSE [store |-> AdapterSet(st, t, key, val, ch.ExpirationDuration),
          val |-> val, err |-> "nil"]

\* Adapter.IncrementInt: go-cache adds to a live item, keeping its
\* expiration, and reports an absent or expired one as not found; the
\* creating adapter stores val under an absent key with the default
\* expiration
AdapterIncrementInt(ch, st, t, key, val) ==
    IF key \in Live(st, t)
    THEN LET new == AddInt(st[key].val, val)
         IN [store |-> [st EXCEPT ![key].val = new], val |-> new,
             err |-> "nil"]
    ELSE IF ch.Adapter = GoCache
         THEN [store |-> st, val |-> 0, err |-> ItemNotFound(key)]
         ELSE [store |-> AdapterSet(st, t, key, val, ch.ExpirationDuration),
               val |-> val, err |-> "nil"]

\* CacheGet answering for an item that has expired
CacheGet_IgnoresExpiry(st, t, key) ==
    IF key \in DOMAIN st
    THEN [val |-> st[key].val, err |-> "nil"]
    ELSE [val |-> NoValue, err |-> "cache miss"]

CacheGet(st, t, key) ==
    IF key \in Live(st, t)
    THEN [val |-> st[key].val, err |-> "nil"]
    ELSE [val |-> NoValue, err |-> "cache miss"]

\* c.Cache.Get as the breaker sees it: the Cache is an interface, and an
\* implementation may return an error of its own, with any value next to it
StoreGet(ch, st, t, key) ==
    IF ch.GetErr # "nil"
    THEN [val |-> TRUE, err |-> ch.GetErr]
    ELSE CacheGet(st, t, key)

CacheSet(ch, st, t, key, value, ttl) ==
    LET duration == IF ttl > 0 THEN ttl ELSE ch.ExpirationDuration
    IN AdapterSet(st, t, key, value, duration)

\* the map of the requested keys that are present, with its dynamic type
CacheGetMulti(ch, st, t, ks) ==
    [type |-> ch.Results,
     m    |-> [k \in {ks[i] : i \in 1..Len(ks)} \cap Live(st, t) |->
                 st[k].val]]

CacheIncrementInt(ch, st, t, key, val) ==
    AdapterIncrementInt(ch, st, t, key, val)

----------------------------------------------------------------------------
(* circuitBreaker: the operations, as functions of the breaker c, the      *)
(* store st and the instant t that time.Now() returns                      *)

\* totalValue += v over the values of a map
RECURSIVE SumValues(_, _)
SumValues(m, ks) ==
    IF ks = {} THEN 0
    ELSE LET k == CHOOSE x \in ks : TRUE
         IN AddInt(m[k], SumValues(m, ks \ {k}))

\* the run-time panic of results.(map[string]int) on a value of another type
InterfaceConversion ==
    "interface conversion: interface {} is " \o MapOfAny \o ", not "
      \o MapOfInt

\* CalculateWindowValue without the check of Active
CalculateWindowValue_IgnoresActive(c, st, t) ==
    LET ks      == GenerateKeys(c, t)
        results == CacheGetMulti(c.Cache, st, t, ks)
        cs      == <<[fn |-> "GetMulti", keys |-> ks]>>
    IN IF results.type # MapOfInt
       THEN [val |-> 0, calls |-> cs, panic |-> InterfaceConversion]
       ELSE [val   |-> SumValues(results.m, DOMAIN results.m),
             calls |-> cs, panic |-> "nil"]

\* the result is [val, calls, panic]: panic is "nil" when the call returns,
\* and then val is what it returns
CalculateWindowValue(c, st, t) ==
    IF ~c.Active
    THEN [val |-> MaxInt, calls |-> <<>>, panic |-> "nil"]
    ELSE LET ks      == GenerateKeys(c, t)
             results == CacheGetMulti(c.Cache, st, t, ks)
             cs      == <<[fn |-> "GetMulti", keys |-> ks]>>
         IN IF results.type # MapOfInt
            THEN [val |-> 0, calls |-> cs, panic |-> InterfaceConversion]
            ELSE [val   |-> SumValues(results.m, DOMAIN results.m),
                  calls |-> cs, panic |-> "nil"]

\* IsExceedingThreshold comparing with > in place of >=
IsExceedingThreshold_Strict(c, st, t, amount) ==
    IF ~c.Active
    THEN [val |-> FALSE, calls |-> <<>>, panic |-> "nil"]
    ELSE LET w == CalculateWindowValue(c, st, t)
         IN [val   |-> w.panic = "nil" /\ AddInt(w.val, amount) > c.Threshold,
             calls |-> w.calls, panic |-> w.panic]

\* IsExceedingThreshold comparing against the warning threshold
IsExceedingThreshold_UsesWarning(c, st, t, amount) ==
    IF ~c.Active
    THEN [val |-> FALSE, calls |-> <<>>, panic |-> "nil"]
    ELSE LET w == CalculateWindowValue(c, st, t)
         IN [val   |-> w.panic = "nil" /\ AddInt(w.val, amount) >= c.WarningThreshold,
             calls |-> w.calls, panic |-> w.panic]

\* IsExceedingThreshold storing the trip flag when it returns true
IsExceedingThreshold_Trips(c, st, t, amount) ==
    IF ~c.Active
    THEN [val |-> FALSE, calls |-> <<>>, panic |-> "nil"]
    ELSE LET w  == CalculateWindowValue(c, st, t)
             ex == w.panic = "nil" /\ AddInt(w.val, amount) >= c.Threshold
         IN [val   |-> ex,
             calls |-> IF ex
                       THEN Append(w.calls,
                                   [fn |-> "Set", keys |-> <<c.TripKey>>])
                       ELSE w.calls,
             panic |-> w.panic]

IsExceedingThreshold(c, st, t, amount) ==
    IF ~c.Active
    THEN [val |-> FALSE, calls |-> <<>>, panic |-> "nil"]
    ELSE LET w == CalculateWindowValue(c, st, t)
         IN [val   |-> w.panic = "nil" /\ AddInt(w.val, amount) >= c.Threshold,
             calls |-> w.calls, panic |-> w.panic]

IsExceedingWarningThreshold(c, st, t, amount) ==
    IF ~c.Active
    THEN [val |-> FALSE, calls |-> <<>>, panic |-> "nil"]
    ELSE LET w == CalculateWindowValue(c, st, t)
         IN [val   |-> w.panic = "nil" /\ AddInt(w.val, amount) >= c.WarningThreshold,
             calls |-> w.calls, panic |-> w.panic]

\* getBoolCache reporting a miss as (false, no error)
getBoolCache_MissIsFalse(c, st, t, cacheKey) ==
    IF ~c.Active
    THEN [val |-> FALSE, err |-> "nil", calls |-> <<>>]
    ELSE LET got == StoreGet(c.Cache, st, t, cacheKey)
             cs  == <<[fn |-> "Get", keys |-> <<cacheKey>>]>>
         IN IF got.err # "nil"
            THEN [val |-> FALSE, err |-> "nil", calls |-> cs]
            ELSE [val |-> got.val, err |-> "nil", calls |-> cs]

\* getBoolCache without the check of Active
getBoolCache_IgnoresActive(c, st, t, cacheKey) ==
    LET got == StoreGet(c.Cache, st, t, cacheKey)
        cs  == <<[fn |-> "Get", keys |-> <<cacheKey>>]>>
    IN IF got.err # "nil"
       THEN [val |-> FALSE, err |-> "cache miss", calls |-> cs]
       ELSE [val |-> got.val, err |-> "nil", calls |-> cs]

\* getBoolCache handing on the error the store's Get returned
getBoolCache_PassesError(c, st, t, cacheKey) ==
    IF ~c.Active
    THEN [val |-> FALSE, err |-> "nil", calls |-> <<>>]
    ELSE LET got == StoreGet(c.Cache, st, t, cacheKey)
             cs  == <<[fn |-> "Get", keys |-> <<cacheKey>>]>>
         IN IF got.err # "nil"
            THEN [val |-> FALSE, err |-> got.err, calls |-> cs]
            ELSE [val |-> got.val, err |-> "nil", calls |-> cs]

getBoolCache(c, st, t, cacheKey) ==
    IF ~c.Active
    THEN [val |-> FALSE, err |-> "nil", calls |-> <<>>]
    ELSE LET got == StoreGet(c.Cache, st, t, cacheKey)
             cs  == <<[fn |-> "Get", keys |-> <<cacheKey>>]>>
         IN IF got.err # "nil"
            THEN [val |-> FALSE, err |-> "cache miss", calls |-> cs]
            ELSE [val |-> got.val, err |-> "nil", calls |-> cs]

\* updateBoolCache leaving a flag that is already stored as it is
updateBoolCache_KeepsExisting(c, st, t, isTripped, cacheKey, expiration) ==
    IF ~c.Active
    THEN [store |-> st, calls |-> <<>>]
    ELSE [store |-> IF cacheKey \in Live(st, t) THEN st
                    ELSE CacheSet(c.Cache, st, t, cacheKey, isTripped,
                                  c.CacheTTL),
          calls |-> <<[fn |-> "Set", keys |-> <<cacheKey>>]>>]

\* updateBoolCache writing the trip key whatever key it is given
updateBoolCache_AlwaysTripKey(c, st, t, isTripped, cacheKey, expiration) ==
    IF ~c.Active
    THEN [store |-> st, calls |-> <<>>]
    ELSE [store |-> CacheSet(c.Cache, st, t, c.TripKey, isTripped, c.CacheTTL),
          calls |-> <<[fn |-> "Set", keys |-> <<cacheKey>>]>>]

updateBoolCache(c, st, t, isTripped, cacheKey, expiration) ==
    IF ~c.Active
    THEN [store |-> st, calls |-> <<>>]
    ELSE [store |-> CacheSet(c.Cache, st, t, cacheKey, isTripped, c.CacheTTL),
          calls |-> <<[fn |-> "Set", keys |-> <<cacheKey>>]>>]

\* the error of a store whose IncrementInt fails for a reason of its own
SomeError == "some error"

\* c.Cache.IncrementInt as the breaker sees it: flt tells whether the store
\* fails this call for a reason of its own
StoreIncrementInt(c, st, t, key, amount, flt) ==
    IF flt
    THEN [store |-> st, val |-> 0, err |-> SomeError]
    ELSE CacheIncrementInt(c.Cache, st, t, key, amount)

\* IncrementBuckets keyed by the instant itself, not floored to the bucket
RECURSIVE IncrementBuckets_Unfloored(_, _, _, _, _, _, _)
IncrementBuckets_Unfloored(c, st, t, amount, i, flt, cs) ==
    IF i > Len(c.Buckets)
    THEN [store |-> st, err |-> "nil", calls |-> cs, failedAt |-> 0]
    ELSE LET key == getTimePointKey(c, c.Buckets[i].Name, t)
             cs1 == Append(cs, [fn |-> "IncrementInt", keys |-> <<key>>])
             inc == StoreIncrementInt(c, st, t, key, amount, flt = i)
         IN IF inc.err # "nil"
            THEN [store |-> inc.store, err |-> inc.err, calls |-> cs1,
                  failedAt |-> i]
            ELSE IncrementBuckets_Unfloored(c, inc.store, t, amount, i + 1,
                                            flt, cs1)

\* IncrementBuckets going on to the next bucket after a failed increment and
\* returning the last error
RECURSIVE IncrementBuckets_KeepsGoing(_, _, _, _, _, _, _)
IncrementBuckets_KeepsGoing(c, st, t, amount, i, flt, cs) ==
    IF i > Len(c.Buckets)
    THEN [store |-> st, err |-> "nil", calls |-> cs, failedAt |-> 0]
    ELSE LET timestamp == Truncate(t, c.Buckets[i].Duration)
             key       == getTimePointKey(c, c.Buckets[i].Name, timestamp)
             cs1       == Append(cs, [fn |-> "IncrementInt", keys |-> <<key>>])
             inc       == StoreIncrementInt(c, st, t, key, amount, flt = i)
             rest      == IncrementBuckets_KeepsGoing(c, inc.store, t, amount,
                                                      i + 1, flt, cs1)
         IN IF inc.err # "nil" /\ rest.err = "nil"
            THEN [rest EXCEPT !.err = inc.err, !.failedAt = i]
            ELSE rest

\* the loop of UpdateLatestBucketsValue from bucket i on; flt is the bucket
\* index whose increment the store fails (0: none)
RECURSIVE IncrementBuckets(_, _, _, _, _, _, _)
IncrementBuckets(c, st, t, amount, i, flt, cs) ==
    IF i > Len(c.Buckets)
    THEN [store |-> st, err |-> "nil", calls |-> cs, failedAt |-> 0]
    ELSE LET timestamp == Truncate(t, c.Buckets[i].Duration)
             key       == getTimePointKey(c, c.Buckets[i].Name, timestamp)
             cs1       == Append(cs, [fn |-> "IncrementInt", keys |-> <<key>>])
             inc       == StoreIncrementInt(c, st, t, key, amount, flt = i)
         IN IF inc.err # "nil"
            THEN [store |-> inc.store, err |-> inc.err, calls |-> cs1,
                  failedAt |-> i]
            ELSE IncrementBuckets(c, inc.store, t, amount, i + 1, flt, cs1)

\* IncrementTier on a store whose increment writes the amount over the
\* counter in place of adding it
IncrementTier_Overwrites(c, st, t, amount, i, flt) ==
    LET timestamp == Truncate(t, c.Buckets[i].Duration)
        key       == getTimePointKey(c, c.Buckets[i].Name, timestamp)
    IN [store |-> AdapterSet(st, t, key, amount, c.Cache.ExpirationDuration),
        val |-> amount, err |-> "nil"]

\* one iteration of the loop of UpdateLatestBucketsValue: the increment of
\* bucket i for a caller that read the clock at t
IncrementTier(c, st, t, amount, i, flt) ==
    LET timestamp == Truncate(t, c.Buckets[i].Duration)
        key       == getTimePointKey(c, c.Buckets[i].Name, timestamp)
    IN StoreIncrementInt(c, st, t, key, amount, flt = i)

\* UpdateLatestBucketsValue without the check of Active
UpdateLatestBucketsValue_IgnoresActive(c, st, t, amount, flt) ==
    IncrementBuckets(c, st, t, amount, 1, flt, <<>>)

UpdateLatestBucketsValue(c, st, t, amount, flt) ==
    IF ~c.Active
    THEN [store |-> st, err |-> "nil", calls |-> <<>>, failedAt |-> 0]
    ELSE IncrementBuckets(c, st, t, amount, 1, flt, <<>>)

\* what the README's use leaves, given what IsExceedingThreshold returned
\* (ex) and what UpdateLatestBucketsValue does when it is called (up)
GuardedResult(c, st, ex, up) ==
    IF ex.panic # "nil" \/ ex.val
    THEN [store |-> st, exceeded |-> ex.val, err |-> ex.panic,
          calls |-> ex.calls, failedAt |-> 0, updated |-> FALSE]
    ELSE [store |-> up.store, exceeded |-> FALSE, err |-> up.err,
          calls |-> ex.calls \o up.calls, failedAt |-> up.failedAt,
          updated |-> c.Active]

\* the README's use of the breaker for one amount, without interleaving:
\* IsExceedingThreshold(amount) and, only if it returned false,
\* UpdateLatestBucketsValue(amount)
GuardedUpdate(c, st, t, amount, flt) ==
    GuardedResult(c, st, IsExceedingThreshold(c, st, t, amount),
                  UpdateLatestBucketsValue(c, st, t, amount, flt))

\* SetThreshold writing the warning threshold
SetThreshold_SetsWarning(c, threshold) ==
    [c EXCEPT !.WarningThreshold = threshold]

SetActive(c, active) == [c EXCEPT !.Active = active]

SetThreshold(c, threshold) == [c EXCEPT !.Threshold = threshold]

SetWarningThreshold(c, threshold) == [c EXCEPT !.WarningThreshold = threshold]

GetActive(c) == c.Active

----------------------------------------------------------------------------
(* The calls, as steps of the system *)

Returned(op, arg, val, err) ==
    [op |-> op, arg |-> arg, val |-> val, err |-> err, at |-> now]

\* the history of the flags after a call that sets the flag at key: the call
\* is recorded when the breaker is active, that is when it reaches the store
Written(key, isTripped) ==
    IF cb.Active
    THEN [k \in DOMAIN flags \cup {key} |->
            IF k = key THEN [val |-> isTripped, at |-> now] ELSE flags[k]]
    ELSE flags

\* the clock advances by d minutes
Tick(d) ==
    /\ ticks < MaxTicks
    /\ now' = now + d
    /\ ticks' = ticks + 1
    /\ UNCHANGED <<cb, store, ret, calls, log, fault, flags, inflight, loop>>

SetActiveCall(active) ==
    /\ cb' = SetActive(cb, active)
    /\ ret' = Returned("SetActive", active, NoValue, "nil")
    /\ calls' = <<>>
    /\ UNCHANGED <<store, now, log, fault, ticks, flags, inflight, loop>>

SetThresholdCall(threshold) ==
    /\ cb' = SetThreshold(cb, threshold)
    /\ ret' = Returned("SetThreshold", threshold, NoValue, "nil")
    /\ calls' = <<>>
    /\ UNCHANGED <<store, now, log, fault, ticks, flags, inflight, loop>>

SetWarningThresholdCall(threshold) ==
    /\ cb' = SetWarningThreshold(cb, threshold)
    /\ ret' = Returned("SetWarningThreshold", threshold, NoValue, "nil")
    /\ calls' = <<>>
    /\ UNCHANGED <<store, now, log, fault, ticks, flags, inflight, loop>>

GetActiveCall ==
    /\ ret' = Returned("GetActive", NoValue, GetActive(cb), "nil")
    /\ calls' = <<>>
    /\ UNCHANGED <<cb, store, now, log, fault, ticks, flags, inflight, loop>>

GenerateKeysCall ==
    /\ ret' = Returned("GenerateKeys", NoValue, GenerateKeys(cb, now), "nil")
    /\ calls' = <<>>
    /\ UNCHANGED <<cb, store, now, log, fault, ticks, flags, inflight, loop>>

CalculateWindowValueCall ==
    LET r == CalculateWindowValue(cb, store, now)
    IN /\ ret' = Returned("CalculateWindowValue", NoValue, r.val, r.panic)
       /\ calls' = r.calls
       /\ UNCHANGED <<cb, store, now, log, fault, ticks, flags, inflight, loop>>

IsExceedingThresholdCall(amount) ==
    LET r == IsExceedingThreshold(cb, store, now, amount)
    IN /\ ret' = Returned("IsExceedingThreshold", amount, r.val, r.panic)
       /\ calls' = r.calls
       /\ UNCHANGED <<cb, store, now, log, fault, ticks, flags, inflight, loop>>

IsExceedingWarningThresholdCall(amount) ==
    LET r == IsExceedingWarningThreshold(cb, store, now, amount)
    IN /\ ret' = Returned("IsExceedingWarningThreshold", amount, r.val, r.panic)
       /\ calls' = r.calls
       /\ UNCHANGED <<cb, store, now, log, fault, ticks, flags, inflight, loop>>

GetTripCall ==
    LET r == getBoolCache(cb, store, now, cb.TripKey)
    IN /\ ret' = Returned("GetTrip", NoValue, r.val, r.err)
       /\ calls' = r.calls
       /\ UNCHANGED <<cb, store, now, log, fault, ticks, flags, inflight, loop>>

GetTripWarningCall ==
    LET r == getBoolCache(cb, store, now, cb.WarningAlertKey)
    IN /\ ret' = Returned("GetTripWarning", NoValue, r.val, r.err)
       /\ calls' = r.calls
       /\ UNCHANGED <<cb, store, now, log, fault, ticks, flags, inflight, loop>>

UpdateTripCall(isTripped) ==
    LET r == updateBoolCache(cb, store, now, isTripped, cb.TripKey, 0)
    IN /\ store' = r.store
       /\ ret' = Returned("UpdateTrip", isTripped, NoValue, "nil")
       /\ calls' = r.calls
       /\ flags' = Written(cb.TripKey, isTripped)
       /\ UNCHANGED <<cb, now, log, fault, ticks, inflight, loop>>

UpdateTripWarningCall(isTripped) ==
    LET r == updateBoolCache(cb, store, now, isTripped, cb.WarningAlertKey,
                             WarningAlertKeyExpiration)
    IN /\ store' = r.store
       /\ ret' = Returned("UpdateTripWarning", isTripped, NoValue, "nil")
       /\ calls' = r.calls
       /\ flags' = Written(cb.WarningAlertKey, isTripped)
       /\ UNCHANGED <<cb, now, log, fault, ticks, inflight, loop>>

UpdateLatestBucketsValueCall(amount) ==
    LET r == UpdateLatestBucketsValue(cb, store, now, amount, fault)
    IN /\ cb.Active => Len(log) < MaxUpdates
       /\ store' = r.store
       /\ ret' = Returned("UpdateLatestBucketsValue", amount, NoValue, r.err)
       /\ calls' = r.calls
       /\ log' = IF cb.Active
                 THEN Append(log, [t |-> now, amount |-> amount,
                                   failedAt |-> r.failedAt])
                 ELSE log
       /\ UNCHANGED <<cb, now, fault, ticks, flags, inflight, loop>>

\* caller p enters UpdateLatestBucketsValue(amount) on an active breaker while
\* others are inside it, and reads the clock
EnterUpdate(p, amount) ==
    /\ cb.Active
    /\ p \notin DOMAIN inflight
    /\ \A i \in 1..Len(log) : log[i].p # p
    /\ inflight' = [q \in DOMAIN inflight \cup {p} |->
                      IF q = p THEN [amount |-> amount, t |-> now, i |-> 1]
                      ELSE inflight[q]]
    /\ UNCHANGED <<cb, store, now, ret, calls, log, fault, ticks, flags, loop>>

\* caller p runs IsExceedingThreshold(amount) while others are inside their
\* own check and update, and enters UpdateLatestBucketsValue(amount) only if
\* it returned false; a refused caller is recorded with failedAt = -1
CheckThenEnter(p, amount) ==
    LET ex == IsExceedingThreshold(cb, store, now, amount)
    IN /\ p \notin DOMAIN inflight
       /\ \A i \in 1..Len(log) : log[i].p # p
       /\ ret' = Returned("IsExceedingThreshold", amount, ex.val, ex.panic)
       /\ calls' = ex.calls
       /\ inflight' = IF ex.val \/ ex.panic # "nil" \/ ~cb.Active
                      THEN inflight
                      ELSE [q \in DOMAIN inflight \cup {p} |->
                              IF q = p
                              THEN [amount |-> amount, t |-> now, i |-> 1]
                              ELSE inflight[q]]
       /\ log' = IF ex.val \/ ex.panic # "nil" \/ ~cb.Active
                 THEN Append(log, [t |-> now, amount |-> amount,
                                   failedAt |-> -1, p |-> p])
                 ELSE log
       /\ UNCHANGED <<cb, store, now, fault, ticks, flags, loop>>

\* caller p does the increment of its next bucket, which the store does
\* atomically, and returns after the last bucket or on an error
IncrementStep(p) ==
    /\ p \in DOMAIN inflight
    /\ LET me   == inflight[p]
           r    == IncrementTier(cb, store, me.t, me.amount, me.i, fault)
           done == r.err # "nil" \/ me.i = Len(cb.Buckets)
       IN /\ store' = r.store
          /\ inflight' = IF done
                          THEN [q \in DOMAIN inflight \ {p} |-> inflight[q]]
                          ELSE [inflight EXCEPT ![p].i = me.i + 1]
          /\ ret' = IF done
                     THEN Returned("UpdateLatestBucketsValue", me.amount,
                                   NoValue, r.err)
                     ELSE ret
          /\ log' = IF done
                     THEN Append(log, [t |-> me.t, amount |-> me.amount,
                                       failedAt |-> IF r.err # "nil"
                                                    THEN me.i ELSE 0,
                                       p |-> p])
                     ELSE log
    /\ UNCHANGED <<cb, now, calls, fault, ticks, flags, loop>>

\* one caller runs the README's check and update for amount
GuardedUpdateCall(amount) ==
    LET r == GuardedUpdate(cb, store, now, amount, fault)
    IN /\ r.updated => Len(log) < MaxUpdates
       /\ store' = r.store
       /\ ret' = Returned("GuardedUpdate", amount, r.exceeded, r.err)
       /\ calls' = r.calls
       /\ log' = IF r.updated
                 THEN Append(log, [t |-> now, amount |-> amount,
                                   failedAt |-> r.failedAt])
                 ELSE log
       /\ UNCHANGED <<cb, now, fault, ticks, flags, inflight, loop>>

\* cache.Get called on the breaker's cache directly
CacheGetCall(key) ==
    LET r == CacheGet(store, now, key)
    IN /\ ret' = Returned("Cache.Get", key, r.val, r.err)
       /\ calls' = <<>>
       /\ UNCHANGED <<cb, store, now, log, fault, ticks, flags, inflight, loop>>

\* cache.GetMulti called on the breaker's cache directly
CacheGetMultiCall(ks) ==
    /\ ret' = Returned("Cache.GetMulti", ks,
                       CacheGetMulti(cb.Cache, store, now, ks), "nil")
    /\ calls' = <<>>
    /\ UNCHANGED <<cb, store, now, log, fault, ticks, flags, inflight, loop>>

\* cache.Set called on the breaker's cache directly
CacheSetCall(key, value, ttl) ==
    /\ store' = CacheSet(cb.Cache, store, now, key, value, ttl)
    /\ ret' = Returned("Cache.Set", <<key, value, ttl>>, NoValue, "nil")
    /\ calls' = <<>>
    /\ UNCHANGED <<cb, now, log, fault, ticks, flags, inflight, loop>>

\* cache.IncrementInt called on the breaker's cache directly
CacheIncrementIntCall(key, val) ==
    LET r == CacheIncrementInt(cb.Cache, store, now, key, val)
    IN /\ r.val <= MaxCounter
       /\ store' = r.store
       /\ ret' = Returned("Cache.IncrementInt", <<key, val>>, r.val, r.err)
       /\ calls' = <<>>
       /\ UNCHANGED <<cb, now, log, fault, ticks, flags, inflight, loop>>

----------------------------------------------------------------------------
(* Specifications *)

EmptyStore == [k \in {} |-> [val |-> 0, ttl |-> 0, exp |-> 0]]

NoFlags == [k \in {} |-> [val |-> FALSE, at |-> 0]]

NoCallers == [p \in {} |-> [amount |-> 0, t |-> 0, i |-> 0]]

\* no GenerateKeys call is running statement by statement
Idle == [pc |-> "idle", i |-> 0, endTime |-> 0, startTime |-> 0,
         result |-> <<>>]

\* a conforming store with the default expiration of the README, 5 minutes
DefaultCache == NewIntCache(Creating, ExpirationDuration)

Constructed == Returned("NewCircuitBreaker", NoValue, NoValue, "nil")

FourTiers ==
    <<NewBucket(Minute), NewBucket(5 * Minute), NewBucket(Hour),
      NewBucket(4 * Hour)>>

\* a store that earlier activity of the same feature has left counters and
\* a trip flag in: the head key, a key at the window's lower bound and a key
\* before it, for the window of 4h at 2023-05-12T10:12Z
SeededStore ==
    LET c == NewCircuitBreaker(DefaultCache, <<>>, 24 * Hour, "test", 4 * Hour)
        e(v) == [val |-> v, ttl |-> 24 * Hour, exp |-> T0000 + 24 * Hour]
    IN (getTimePointKey(c, "4h", T1012 - 132) :> e(1))
         @@ (getTimePointKey(c, "1m", T1012 - 240) :> e(1))
         @@ (getTimePointKey(c, "1m", T1012 - 241) :> e(2))
         @@ (c.TripKey :> [val |-> TRUE, ttl |-> 24 * Hour,
                           exp |-> T1012 + 24 * Hour])

Amounts == {1, 2}
QueryAmounts == {1, MaxInt}

\* the whole interface at one instant, on the default buckets with a window
\* of 4h
Init ==
    /\ cb = NewCircuitBreaker(DefaultCache, <<>>, 24 * Hour, "test", 4 * Hour)
    /\ store \in {EmptyStore, SeededStore}
    /\ now = T1012
    /\ ret = Constructed
    /\ calls = <<>>
    /\ log = <<>>
    /\ fault = 0
    /\ ticks = 0
    /\ flags = NoFlags
    /\ inflight = NoCallers
    /\ loop = Idle

Next ==
    \/ \E b \in BOOLEAN : SetActiveCall(b)
    \/ SetThresholdCall(3)
    \/ SetWarningThresholdCall(2)
    \/ GenerateKeysCall
    \/ CalculateWindowValueCall
    \/ \E a \in QueryAmounts : IsExceedingThresholdCall(a)
    \/ \E a \in QueryAmounts : IsExceedingWarningThresholdCall(a)
    \/ GetTripCall
    \/ GetTripWarningCall
    \/ \E b \in BOOLEAN : UpdateTripCall(b)
    \/ \E b \in BOOLEAN : UpdateTripWarningCall(b)
    \/ \E a \in Amounts : UpdateLatestBucketsValueCall(a)

Spec == Init /\ [][Next]_vars

\* recording and reading the window as the clock advances, on a store that
\* starts empty and does not fail
WindowDurations == {Hour, 4 * Hour}
WindowTicks == {1, 60, 239}
WindowAmounts == {1, 2}

InitWindow ==
    /\ cb \in {NewCircuitBreaker(NewIntCache(Creating, 24 * Hour), <<>>,
                                  24 * Hour, "test", w) :
                 w \in WindowDurations}
    /\ store = EmptyStore
    /\ now = T1012
    /\ ret = Constructed
    /\ calls = <<>>
    /\ log = <<>>
    /\ fault = 0
    /\ ticks = 0
    /\ flags = NoFlags
    /\ inflight = NoCallers
    /\ loop = Idle

NextWindow ==
    \/ \E d \in WindowTicks : Tick(d)
    \/ \E a \in WindowAmounts : UpdateLatestBucketsValueCall(a)
    \/ CalculateWindowValueCall

SpecWindow == InitWindow /\ [][NextWindow]_vars

\* GenerateKeys alone, over bucket lists, windows and instants
BucketLists ==
    {<<>>, FourTiers, <<NewBucket(24 * Hour)>>, <<NewBucket(4 * Hour)>>,
     <<NewBucket(5 * Minute), NewBucket(Hour)>>,
     <<NewBucket(5 * Minute), NewBucket(Minute)>>}
KeyWindows == {Hour, 4 * Hour, 24 * Hour}
KeyTicks == {1, 239}

InitKeys ==
    /\ cb \in {NewCircuitBreaker(DefaultCache, bl, 24 * Hour, "test", w) :
                 bl \in BucketLists, w \in KeyWindows}
    /\ store = EmptyStore
    /\ now \in {T1012, T0000}
    /\ ret = Constructed
    /\ calls = <<>>
    /\ log = <<>>
    /\ fault = 0
    /\ ticks = 0
    /\ flags = NoFlags
    /\ inflight = NoCallers
    /\ loop = Idle

NextKeys ==
    \/ \E d \in KeyTicks : Tick(d)
    \/ GenerateKeysCall

SpecKeys == InitKeys /\ [][NextKeys]_vars

\* the breaker over either adapter, with a store that may fail the increment
\* of one bucket and whose counters may have been stored beforehand
ThreeTiers == <<NewBucket(4 * Hour), NewBucket(5 * Minute), NewBucket(Minute)>>
StoreTicks == {1, 6}
StoreAmounts == {1, 2}

\* the keys UpdateLatestBucketsValue increments at instant t
TierKeys(c, t) ==
    {getTimePointKey(c, c.Buckets[j].Name, Truncate(t, c.Buckets[j].Duration)) :
       j \in 1..Len(c.Buckets)}

\* the store after Set(key, 10, 1h) for every key of c at instant t
StoredCounters(c, t) ==
    [k \in TierKeys(c, t) |-> [val |-> 10, ttl |-> Hour, exp |-> t + Hour]]

InitStore ==
    /\ cb \in {NewCircuitBreaker(NewCache(a, ExpirationDuration), ThreeTiers,
                                  24 * Hour, "test", 4 * Hour) :
                 a \in {GoCache, Creating}}
    /\ store \in {EmptyStore, StoredCounters(cb, T1012)}
    /\ now = T1012
    /\ ret = Constructed
    /\ calls = <<>>
    /\ log = <<>>
    /\ fault \in 0..Len(ThreeTiers)
    /\ ticks = 0
    /\ flags = NoFlags
    /\ inflight = NoCallers
    /\ loop = Idle

NextStore ==
    \/ \E d \in StoreTicks : Tick(d)
    \/ \E a \in StoreAmounts : UpdateLatestBucketsValueCall(a)

SpecStore == InitStore /\ [][NextStore]_vars

\* the cache wrapper over go-cache, called directly as its test does
TestKey == "test-key"
CacheTicks == {1, 6}
CacheValues == {1, 10}

InitCache ==
    /\ cb = NewCircuitBreaker(NewCache(GoCache, ExpirationDuration), <<>>,
                              24 * Hour, "test", 4 * Hour)
    /\ store = EmptyStore
    /\ now = T1012
    /\ ret = Constructed
    /\ calls = <<>>
    /\ log = <<>>
    /\ fault = 0
    /\ ticks = 0
    /\ flags = NoFlags
    /\ inflight = NoCallers
    /\ loop = Idle

NextCache ==
    \/ \E d \in CacheTicks : Tick(d)
    \/ \E ttl \in {0, Minute} : CacheSetCall(TestKey, 10, ttl)
    \/ \E v \in CacheValues : CacheIncrementIntCall(TestKey, v)

SpecCache == InitCache /\ [][NextCache]_vars

\* the two flags as the clock advances past their times to live
FlagTTLs == {Hour, 24 * Hour}
FlagTicks == {1, 12 * Hour + 1, 24 * Hour + 1}

InitFlags ==
    /\ cb \in {NewCircuitBreaker(DefaultCache, <<>>, ttl, "test", 4 * Hour) :
                 ttl \in FlagTTLs}
    /\ store = EmptyStore
    /\ now = T1012
    /\ ret = Constructed
    /\ calls = <<>>
    /\ log = <<>>
    /\ fault = 0
    /\ ticks = 0
    /\ flags = NoFlags
    /\ inflight = NoCallers
    /\ loop = Idle

NextFlags ==
    \/ \E d \in FlagTicks : Tick(d)
    \/ \E b \in BOOLEAN : SetActiveCall(b)
    \/ GetTripCall
    \/ GetTripWarningCall
    \/ \E b \in BOOLEAN : UpdateTripCall(b)
    \/ \E b \in BOOLEAN : UpdateTripWarningCall(b)

SpecFlags == InitFlags /\ [][NextFlags]_vars

\* the three writers of the store next to each other, at one instant
InitFrame ==
    /\ cb = NewCircuitBreaker(DefaultCache, <<>>, 24 * Hour, "test", 4 * Hour)
    /\ store \in {EmptyStore, SeededStore}
    /\ now = T1012
    /\ ret = Constructed
    /\ calls = <<>>
    /\ log = <<>>
    /\ fault = 0
    /\ ticks = 0
    /\ flags = NoFlags
    /\ inflight = NoCallers
    /\ loop = Idle

NextFrame ==
    \/ \E b \in BOOLEAN : UpdateTripCall(b)
    \/ \E b \in BOOLEAN : UpdateTripWarningCall(b)
    \/ \E a \in Amounts : UpdateLatestBucketsValueCall(a)

SpecFrame == InitFrame /\ [][NextFrame]_vars

\* bucket lists that name a duration twice, or two durations of the same
\* hour, next to the default list; the threshold has been set to 3
TierLists ==
    {<<>>,
     <<NewBucket(4 * Hour), NewBucket(4 * Hour), NewBucket(Hour),
       NewBucket(5 * Minute), NewBucket(Minute)>>,
     <<NewBucket(4 * Hour), NewBucket(Hour), NewBucket(Hour),
       NewBucket(Minute)>>,
     <<NewBucket(90 * Minute), NewBucket(60 * Minute), NewBucket(Minute)>>}
TierTicks == {1, 120}

InitTiers ==
    /\ cb \in {[NewCircuitBreaker(NewIntCache(Creating, 24 * Hour), bl,
                                   24 * Hour, "test", 4 * Hour)
                   EXCEPT !.Threshold = 3] : bl \in TierLists}
    /\ store = EmptyStore
    /\ now = T1012
    /\ ret = Constructed
    /\ calls = <<>>
    /\ log = <<>>
    /\ fault = 0
    /\ ticks = 0
    /\ flags = NoFlags
    /\ inflight = NoCallers
    /\ loop = Idle

NextTiers ==
    \/ \E d \in TierTicks : Tick(d)
    \/ \E a \in Amounts : UpdateLatestBucketsValueCall(a)
    \/ CalculateWindowValueCall
    \/ IsExceedingThresholdCall(1)

SpecTiers == InitTiers /\ [][NextTiers]_vars

\* callers inside UpdateLatestBucketsValue at the same time, within one
\* minute, over either adapter
Callers == 1..MaxCallers
TwoTiers == <<NewBucket(5 * Minute), NewBucket(Minute)>>

InitCallers ==
    /\ cb \in {NewCircuitBreaker(NewCache(a, ExpirationDuration), TwoTiers,
                                  24 * Hour, "test", 4 * Hour) :
                 a \in {GoCache, Creating}}
    /\ store \in {EmptyStore, StoredCounters(cb, T1012)}
    /\ now = T1012
    /\ ret = Constructed
    /\ calls = <<>>
    /\ log = <<>>
    /\ fault = 0
    /\ ticks = 0
    /\ flags = NoFlags
    /\ inflight = NoCallers
    /\ loop = Idle

NextCallers ==
    \/ \E p \in Callers, a \in Amounts : EnterUpdate(p, a)
    \/ \E p \in Callers : IncrementStep(p)

SpecCallers == InitCallers /\ [][NextCallers]_vars

\* the breaker composed with the repository's cache over go-cache, as the
\* README does, and the cache called directly
HeadKey == "cb-test-1h-5m-202305121010"
WrapperKeys == {TestKey, HeadKey}
WrapperKeyLists == {<<>>, <<TestKey>>, <<HeadKey, TestKey>>}
WrapperTicks == {1, 6}

InitWrapper ==
    /\ cb = NewCircuitBreaker(NewCache(GoCache, ExpirationDuration), TwoTiers,
                              24 * Hour, "test", Hour)
    /\ store = EmptyStore
    /\ now = T1012
    /\ ret = Constructed
    /\ calls = <<>>
    /\ log = <<>>
    /\ fault = 0
    /\ ticks = 0
    /\ flags = NoFlags
    /\ inflight = NoCallers
    /\ loop = Idle

NextWrapper ==
    \/ \E d \in WrapperTicks : Tick(d)
    \/ \E k \in WrapperKeys, ttl \in {0, Minute} : CacheSetCall(k, 10, ttl)
    \/ \E k \in WrapperKeys : CacheGetCall(k)
    \/ \E ks \in WrapperKeyLists : CacheGetMultiCall(ks)
    \/ CalculateWindowValueCall

SpecWrapper == InitWrapper /\ [][NextWrapper]_vars

\* the settings changed at any time, between reads and an update of the
\* window, at one instant
SettingValues == {2, 3}

InitSettings ==
    /\ cb = NewCircuitBreaker(DefaultCache, <<>>, 24 * Hour, "test", 4 * Hour)
    /\ store \in {EmptyStore, SeededStore}
    /\ now = T1012
    /\ ret = Constructed
    /\ calls = <<>>
    /\ log = <<>>
    /\ fault = 0
    /\ ticks = 0
    /\ flags = NoFlags
    /\ inflight = NoCallers
    /\ loop = Idle

NextSettings ==
    \/ \E b \in BOOLEAN : SetActiveCall(b)
    \/ \E th \in SettingValues : SetThresholdCall(th)
    \/ \E th \in SettingValues : SetWarningThresholdCall(th)
    \/ GetActiveCall
    \/ IsExceedingThresholdCall(1)
    \/ IsExceedingWarningThresholdCall(1)
    \/ UpdateLatestBucketsValueCall(1)

SpecSettings == InitSettings /\ [][NextSettings]_vars

\* the README's usage, one caller after the other as the clock advances,
\* on the default buckets with the threshold set to 3
UsageAmounts == {1, 2, MaxInt}
UsageTicks == {1, 4 * Hour}

InitUsage ==
    /\ cb = SetThreshold(NewCircuitBreaker(NewIntCache(Creating, 24 * Hour),
                                           <<>>, 24 * Hour, "test", 4 * Hour),
                         3)
    /\ store = EmptyStore
    /\ now = T1012
    /\ ret = Constructed
    /\ calls = <<>>
    /\ log = <<>>
    /\ fault = 0
    /\ ticks = 0
    /\ flags = NoFlags
    /\ inflight = NoCallers
    /\ loop = Idle

NextUsage ==
    \/ \E d \in UsageTicks : Tick(d)
    \/ \E a \in UsageAmounts : GuardedUpdateCall(a)

SpecUsage == InitUsage /\ [][NextUsage]_vars

\* two callers run the README's check and update at the same time, on the
\* default buckets with the threshold set to 3
Pair == {1, 2}

InitPair ==
    /\ cb = SetThreshold(NewCircuitBreaker(NewIntCache(Creating, 24 * Hour),
                                           <<>>, 24 * Hour, "test", 4 * Hour),
                         3)
    /\ store = EmptyStore
    /\ now = T1012
    /\ ret = Constructed
    /\ calls = <<>>
    /\ log = <<>>
    /\ fault = 0
    /\ ticks = 0
    /\ flags = NoFlags
    /\ inflight = NoCallers
    /\ loop = Idle

NextPair ==
    \/ \E p \in Pair, a \in Amounts : CheckThenEnter(p, a)
    \/ \E p \in Pair : IncrementStep(p)

SpecPair == InitPair /\ [][NextPair]_vars

\* one caller inside UpdateLatestBucketsValue while the window is read and
\* the clock advances, shortly before the coarsest tier's next bucket begins;
\* an earlier update of 2 may have been recorded an hour before
ReaderWindows == {4 * Hour, 8 * Hour}
ReaderStarts == {T1012, T1012 + 107}
ReaderTicks == {1, 2}
EarlierUpdate == [t |-> T1012 - Hour, amount |-> 2, failedAt |-> 0, p |-> 0]

InitReader ==
    /\ cb \in {NewCircuitBreaker(NewIntCache(Creating, 24 * Hour), <<>>,
                                  24 * Hour, "test", w) : w \in ReaderWindows}
    /\ log \in {<<>>, <<EarlierUpdate>>}
    /\ store = IF log = <<>> THEN EmptyStore
               ELSE UpdateLatestBucketsValue(cb, EmptyStore, EarlierUpdate.t,
                                             EarlierUpdate.amount, 0).store
    /\ now \in ReaderStarts
    /\ ret = Constructed
    /\ calls = <<>>
    /\ fault = 0
    /\ ticks = 0
    /\ flags = NoFlags
    /\ inflight = NoCallers
    /\ loop = Idle

NextReader ==
    \/ \E d \in ReaderTicks : Tick(d)
    \/ \E a \in Amounts : EnterUpdate(1, a)
    \/ IncrementStep(1)
    \/ CalculateWindowValueCall

SpecReader == InitReader /\ [][NextReader]_vars

\* the reads next to the writers as the clock advances past the flag's time
\* to live, on a breaker with threshold 3
ReadsTicks == {1, 24 * Hour + 1}
ReadsAmounts == {1, 3}

InitReads ==
    /\ cb = SetThreshold(NewCircuitBreaker(DefaultCache, <<>>, 24 * Hour,
                                           "test", 4 * Hour), 3)
    /\ store \in {EmptyStore, SeededStore}
    /\ now = T1012
    /\ ret = Constructed
    /\ calls = <<>>
    /\ log = <<>>
    /\ fault = 0
    /\ ticks = 0
    /\ flags = NoFlags
    /\ inflight = NoCallers
    /\ loop = Idle

NextReads ==
    \/ \E d \in ReadsTicks : Tick(d)
    \/ GenerateKeysCall
    \/ CalculateWindowValueCall
    \/ \E a \in ReadsAmounts : IsExceedingThresholdCall(a)
    \/ GetTripCall
    \/ GetTripWarningCall
    \/ \E b \in BOOLEAN : UpdateTripCall(b)

SpecReads == InitReads /\ [][NextReads]_vars

\* GenerateKeys statement by statement.  The statements before the loops:
\* endTime and startTime are truncated and the head key is appended
GenerateKeysEnter ==
    /\ loop.pc = "idle"
    /\ LET endTime == Truncate(now, cb.Buckets[1].Duration)
       IN loop' = [pc        |-> "run",
                   i         |-> 1,
                   endTime   |-> endTime,
                   startTime |-> Truncate(now - cb.WindowDuration, Minute),
                   result    |-> <<getTimePointKey(cb, cb.Buckets[1].Name,
                                                   endTime)>>]
    /\ UNCHANGED <<cb, store, now, ret, calls, log, fault, ticks, flags,
                   inflight>>

\* append(result, key); of a list that grows without end the model keeps
\* the first MaxKeys keys
AppendKey(result, key) ==
    IF Len(result) < MaxKeys THEN Append(result, key) ELSE result

\* one evaluation of the inner loop's condition for bucket loop.i: the body
\* runs when it holds, the outer loop goes on to the next bucket when it
\* does not, and the function returns result after the last bucket
GenerateKeysStep ==
    /\ loop.pc = "run"
    /\ loop' =
         IF loop.i > Len(cb.Buckets)
         THEN [loop EXCEPT !.pc = "idle"]
         ELSE LET bucket == cb.Buckets[loop.i]
                  back   == loop.endTime - bucket.Duration
              IN IF back >= loop.startTime
                 THEN [loop EXCEPT
                         !.endTime = back,
                         !.result = AppendKey(@,
                                      getTimePointKey(cb, bucket.Name, back))]
                 ELSE [loop EXCEPT !.i = @ + 1]
    /\ UNCHANGED <<cb, store, now, ret, calls, log, fault, ticks, flags,
                   inflight>>

\* engines with bucket durations of zero next to engines without, on windows
\* of 0 and of 5 minutes
LoopBuckets ==
    { <<>>,
      <<NewBucket(Minute)>>,
      <<NewBucket(5 * Minute), NewBucket(Minute)>>,
      <<NewBucket(0)>>,
      <<NewBucket(Minute), NewBucket(0)>> }
LoopWindows == {0, 5 * Minute}
LoopTicks == {1, 2}

InitLoop ==
    /\ cb \in {NewCircuitBreaker(DefaultCache, bs, 24 * Hour, "test", w) :
                 bs \in LoopBuckets, w \in LoopWindows}
    /\ store = EmptyStore
    /\ now = T1012
    /\ ret = Constructed
    /\ calls = <<>>
    /\ log = <<>>
    /\ fault = 0
    /\ ticks = 0
    /\ flags = NoFlags
    /\ inflight = NoCallers
    /\ loop = Idle

NextLoop ==
    \/ \E d \in LoopTicks : Tick(d)
    \/ GenerateKeysEnter
    \/ GenerateKeysStep

\* a call that has been entered keeps executing
SpecLoop == InitLoop /\ [][NextLoop]_vars /\ WF_loop(GenerateKeysStep)

\* the flags behind a store whose Get fails, next to one whose Get answers
FailingTicks == {1, 24 * Hour + 1}

InitFailing ==
    /\ cb \in {NewCircuitBreaker(ch, <<>>, 24 * Hour, "test", 4 * Hour) :
                 ch \in {NewIntCache(Creating, ExpirationDuration),
                         NewFailingCache(Creating, ExpirationDuration)}}
    /\ store \in {EmptyStore, SeededStore}
    /\ now = T1012
    /\ ret = Constructed
    /\ calls = <<>>
    /\ log = <<>>
    /\ fault = 0
    /\ ticks = 0
    /\ flags = NoFlags
    /\ inflight = NoCallers
    /\ loop = Idle

NextFailing ==
    \/ \E d \in FailingTicks : Tick(d)
    \/ \E b \in BOOLEAN : SetActiveCall(b)
    \/ GetTripCall
    \/ GetTripWarningCall
    \/ UpdateTripCall(TRUE)
    \/ UpdateTripWarningCall(TRUE)

SpecFailing == InitFailing /\ [][NextFailing]_vars

----------------------------------------------------------------------------
(* Properties *)

\* the last call was op and nothing has happened since it returned
Fresh(op) == ret.op = op /\ ret.at = now

Range(s) == {s[i] : i \in 1..Len(s)}

WindowStart == Truncate(now - cb.WindowDuration, Minute)

\* the entries of the log recorded inside the window ending now
InWindow == {i \in 1..Len(log) : WindowStart <= log[i].t /\ log[i].t <= now}

RECURSIVE SumAmounts(_)
SumAmounts(idx) ==
    IF idx = {} THEN 0
    ELSE LET i == CHOOSE x \in idx : TRUE
         IN log[i].amount + SumAmounts(idx \ {i})

\* the keys the i-th recorded call incremented
WrittenKeys(i) ==
    {getTimePointKey(cb, cb.Buckets[j].Name,
                     Truncate(log[i].t, cb.Buckets[j].Duration)) :
       j \in 1..Len(cb.Buckets)}

\* the counters live in the store under the keys generated for now,
\* added up as Go ints
RECURSIVE SumCounters(_)
SumCounters(ks) ==
    IF ks = {} THEN 0
    ELSE LET k == CHOOSE x \in ks : TRUE
         IN WrapInt(store[k].val + SumCounters(ks \ {k}))

PresentSum ==
    SumCounters(Range(GenerateKeys(cb, now)) \cap Live(store, now))

\* C1: with tiers {4h,1h,5m,1m}, a window of at least 4h and a store that
\* creates absent counters and never fails, CalculateWindowValue on an active
\* breaker returns the sum of the amounts recorded at times t with
\* floor(now - W, 1 minute) <= t <= now, each once.
C1_WindowValueIsSumOfRecorded ==
    ( /\ Fresh("CalculateWindowValue")
      /\ cb.Active
      /\ cb.Buckets = DefaultBucket
      /\ cb.WindowDuration >= 4 * Hour
      /\ \A i \in 1..Len(log) : log[i].failedAt = 0 )
    => ret.val = SumAmounts(InWindow)

\* one recorded amount has left the window, another is still inside it
C1_Witness ==
    /\ Fresh("CalculateWindowValue")
    /\ cb.Active
    /\ cb.Buckets = DefaultBucket
    /\ cb.WindowDuration >= 4 * Hour
    /\ Len(log) = 2
    /\ InWindow = {2}
    /\ log[2].t = WindowStart
    /\ ret.val = log[2].amount

\* the 19 keys of the fixture: tiers {4h,1h,5m,1m}, window 24h,
\* now = 2023-05-12T10:12Z
FixtureKeys ==
    << "cb-test-24h-4h-202305120800", "cb-test-24h-4h-202305120400",
       "cb-test-24h-4h-202305120000", "cb-test-24h-4h-202305112000",
       "cb-test-24h-4h-202305111600", "cb-test-24h-4h-202305111200",
       "cb-test-24h-1h-202305111100", "cb-test-24h-5m-202305111055",
       "cb-test-24h-5m-202305111050", "cb-test-24h-5m-202305111045",
       "cb-test-24h-5m-202305111040", "cb-test-24h-5m-202305111035",
       "cb-test-24h-5m-202305111030", "cb-test-24h-5m-202305111025",
       "cb-test-24h-5m-202305111020", "cb-test-24h-5m-202305111015",
       "cb-test-24h-1m-202305111014", "cb-test-24h-1m-202305111013",
       "cb-test-24h-1m-202305111012" >>

IsFixture ==
    /\ cb.Buckets = DefaultBucket
    /\ cb.WindowDuration = 24 * Hour
    /\ cb.FeatureName = "test"
    /\ now = T1012

\* the time the walk stands at once tiers 1..i are done: the earliest time
\* point of a tier <= i, the head's if there is none
EndAfter(tp, i) ==
    LET idx == {k \in 1..Len(tp) : tp[k][1] <= i}
        last == CHOOSE k \in idx : \A j \in idx : j <= k
    IN tp[last][2]

\* C2: GenerateKeys(now) returns the head key (coarsest tier at
\* floor(now, coarsest duration)), then tier by tier from coarsest to finest
\* one key per step of the tier's duration back from the current end time,
\* a step being taken exactly while the stepped time is
\* >= floor(now - window, 1 minute); for the fixture this is the 19-key list.
C2_KeysWalkTiersBackwards ==
    Fresh("GenerateKeys") =>
      LET bs == cb.Buckets
          tp == TimePoints(cb, now)
      IN /\ Len(ret.val) = Len(tp)
         /\ tp[1] = <<1, Truncate(now, bs[1].Duration)>>
         /\ \A k \in 1..Len(tp) :
              ret.val[k] = getTimePointKey(cb, bs[tp[k][1]].Name, tp[k][2])
         /\ \A k \in 2..Len(tp) :
              /\ tp[k][1] >= tp[k - 1][1]
              /\ tp[k][2] = tp[k - 1][2] - bs[tp[k][1]].Duration
              /\ tp[k][2] >= WindowStart
         /\ \A i \in 1..Len(bs) :
              EndAfter(tp, i) - bs[i].Duration < WindowStart
         /\ IsFixture => ret.val = FixtureKeys

\* GenerateKeys has returned the fixture's list
C2_Witness ==
    /\ Fresh("GenerateKeys")
    /\ IsFixture
    /\ Len(ret.val) = 19
    /\ ret.val[1] = "cb-test-24h-4h-202305120800"
    /\ ret.val[19] = "cb-test-24h-1m-202305111012"

\* C3: for any now and any configured bucket tiers, the intervals
\* [ts, ts + tier duration) of the keys GenerateKeys(now) returns cover every
\* instant of [now - windowDuration, now].
C3_KeysCoverWindow ==
    Fresh("GenerateKeys") =>
      LET tp == TimePoints(cb, now)
      IN \A t \in (now - cb.WindowDuration)..now :
           \E k \in 1..Len(tp) :
             /\ tp[k][2] <= t
             /\ t < tp[k][2] + cb.Buckets[tp[k][1]].Duration

\* C4: the keys GenerateKeys(now) returns hold only amounts recorded at or
\* after floor(now - windowDuration, 1 minute): no key CalculateWindowValue
\* reads was incremented by a call made before the window's lower bound.
C4_KeysHoldOnlyWindowAmounts ==
    (Fresh("CalculateWindowValue") /\ cb.Active) =>
      \A i \in 1..Len(log) :
        (log[i].failedAt = 0 /\ log[i].t < WindowStart)
          => WrittenKeys(i) \cap Range(calls[1].keys) = {}

\* C5: with a single tier whose duration equals windowDuration,
\* GenerateKeys(now) returns exactly 2 keys for every now: the head key and
\* the key one tier duration earlier.
C5_SingleTierTwoKeys ==
    ( /\ Fresh("GenerateKeys")
      /\ Len(cb.Buckets) = 1
      /\ cb.Buckets[1].Duration = cb.WindowDuration )
    => LET d    == cb.Buckets[1].Duration
           head == Truncate(now, d)
       IN ret.val = <<getTimePointKey(cb, cb.Buckets[1].Name, head),
                      getTimePointKey(cb, cb.Buckets[1].Name, head - d)>>

\* C6: on an active breaker IsExceedingThreshold(amount) returns true
\* exactly when (the sum of the counters present under the generated keys)
\* + amount >= threshold, + being Go's int addition; equality counts as
\* exceeding.
C6_ExceedingIffSumReachesThreshold ==
    (Fresh("IsExceedingThreshold") /\ cb.Active) =>
      /\ ret.val = (AddInt(PresentSum, ret.arg) >= cb.Threshold)
      /\ calls = <<[fn |-> "GetMulti", keys |-> GenerateKeys(cb, now)]>>

\* the boundary: the sum plus the amount equals the threshold
C6_Witness ==
    /\ Fresh("IsExceedingThreshold")
    /\ cb.Active
    /\ PresentSum > 0
    /\ PresentSum + ret.arg = cb.Threshold
    /\ ret.val = TRUE

\* the settings an engine can be given
Settings == {2, 3, MaxInt}

\* C7: IsExceedingWarningThreshold(amount) on an active breaker returns true
\* exactly when window value + amount >= warningThreshold; its result does
\* not depend on threshold, and the result of IsExceedingThreshold is decided
\* by threshold and does not depend on warningThreshold.
C7_ThresholdsAreIndependent ==
    /\ (Fresh("IsExceedingWarningThreshold") /\ cb.Active) =>
         /\ ret.val = (AddInt(PresentSum, ret.arg) >= cb.WarningThreshold)
         /\ \A th \in Settings :
              IsExceedingWarningThreshold([cb EXCEPT !.Threshold = th],
                                          store, now, ret.arg).val = ret.val
    /\ (Fresh("IsExceedingThreshold") /\ cb.Active) =>
         /\ ret.val = (AddInt(PresentSum, ret.arg) >= cb.Threshold)
         /\ \A th \in Settings :
              IsExceedingThreshold([cb EXCEPT !.WarningThreshold = th],
                                   store, now, ret.arg).val = ret.val

\* the warning threshold is reached while the threshold is not
C7_Witness ==
    /\ Fresh("IsExceedingWarningThreshold")
    /\ cb.Active
    /\ cb.WarningThreshold < cb.Threshold
    /\ PresentSum + ret.arg >= cb.WarningThreshold
    /\ PresentSum + ret.arg < cb.Threshold
    /\ ret.val = TRUE

\* C8: whenever active is false, CalculateWindowValue returns the maximum
\* int whatever the store holds and reads nothing from the store.
C8_InactiveWindowValueIsMaxInt ==
    (Fresh("CalculateWindowValue") /\ ~cb.Active) =>
      (ret.val = MaxInt /\ calls = <<>>)

\* inactive, with counters present under the generated keys
C8_Witness ==
    /\ Fresh("CalculateWindowValue")
    /\ ~cb.Active
    /\ PresentSum > 0
    /\ ret.val = MaxInt

\* C9: whenever active is false, IsExceedingThreshold and
\* IsExceedingWarningThreshold return false for every amount, threshold and
\* store content, and GetTrip and GetTripWarning return (false, no error),
\* also when the stored flag is true or absent.
C9_InactiveQueriesReportFalse ==
    ~cb.Active =>
      /\ (Fresh("IsExceedingThreshold") \/ Fresh("IsExceedingWarningThreshold"))
           => ret.val = FALSE
      /\ (Fresh("GetTrip") \/ Fresh("GetTripWarning"))
           => (ret.val = FALSE /\ ret.err = "nil")

\* inactive, GetTrip has returned false although the stored flag is true
C9_Witness ==
    /\ ~cb.Active
    /\ Fresh("GetTrip")
    /\ cb.TripKey \in DOMAIN store
    /\ store[cb.TripKey].val = TRUE
    /\ cb.WarningAlertKey \notin DOMAIN store
    /\ ret.val = FALSE
    /\ ret.err = "nil"

\* the value CalculateWindowValue would return now were the breaker active
WindowIfActive ==
    CalculateWindowValue([cb EXCEPT !.Active = TRUE], store, now).val

\* C10: while active is false every call leaves the store (all counters and
\* both flags) unchanged and issues no store call, and
\* UpdateLatestBucketsValue returns no error; so the window value seen after
\* reactivation is the one before the call.
C10_InactiveCallsLeaveStoreAlone ==
    [][ ~cb.Active =>
          /\ store' = store
          /\ calls' = <<>>
          /\ ret'.op = "UpdateLatestBucketsValue" =>
               /\ ret'.err = "nil"
               /\ CalculateWindowValue([cb' EXCEPT !.Active = TRUE],
                                       store', now').val = WindowIfActive
      ]_vars

\* UpdateLatestBucketsValue has returned on an inactive breaker
C10_Witness ==
    /\ ~cb.Active
    /\ Fresh("UpdateLatestBucketsValue")
    /\ ret.err = "nil"
    /\ calls = <<>>
    /\ store = SeededStore

----------------------------------------------------------------------------
(* Recording: UpdateLatestBucketsValue and the cache's IncrementInt *)

\* the key UpdateLatestBucketsValue increments for bucket j at instant t
TierKey(c, t, j) ==
    getTimePointKey(c, c.Buckets[j].Name, Truncate(t, c.Buckets[j].Duration))

\* the number of buckets of c whose key at instant t is k
TiersAt(c, t, k) ==
    Cardinality({j \in 1..Len(c.Buckets) : TierKey(c, t, j) = k})

\* what the counter at k holds for a reader at instant t
CounterAt(st, t, k) == IF k \in Live(st, t) THEN st[k].val ELSE 0

\* the first bucket whose increment the store will not do at instant t:
\* the one it fails for its own reasons, or the first whose counter go-cache
\* does not hold; 0 if there is none
FirstFailing(c, st, t, flt) ==
    LET bad == {j \in 1..Len(c.Buckets) :
                  \/ flt = j
                  \/ c.Cache.Adapter = GoCache /\ TierKey(c, t, j) \notin Live(st, t)}
    IN IF bad = {} THEN 0 ELSE CHOOSE j \in bad : \A i \in bad : j <= i

\* the step is a call of UpdateLatestBucketsValue(a) that reached the store:
\* the history has grown by it
Recorded(a) ==
    /\ Len(log') = Len(log) + 1
    /\ log'[Len(log')].amount = a

\* C11: a successful UpdateLatestBucketsValue(amount) on an active breaker
\* issues exactly one IncrementInt per configured tier, in the order of the
\* tiers, each by amount and on the key of (tier name, floor(now, tier
\* duration)) for one and the same now, and changes no other key.
C11_UpdateIncrementsEachTierOnce ==
    [][ \A a \in StoreAmounts :
          (Recorded(a) /\ cb.Active /\ ret'.err = "nil") =>
            /\ calls' = [j \in 1..Len(cb.Buckets) |->
                           [fn |-> "IncrementInt",
                            keys |-> <<TierKey(cb, now, j)>>]]
            /\ \A k \in TierKeys(cb, now) :
                 /\ k \in Live(store', now)
                 /\ store'[k].val =
                      WrapInt(CounterAt(store, now, k) + TiersAt(cb, now, k) * a)
            /\ DOMAIN store' = DOMAIN store \cup TierKeys(cb, now)
            /\ \A k \in DOMAIN store \ TierKeys(cb, now) : store'[k] = store[k]
      ]_vars

\* a successful call over go-cache has added its amount to the three stored
\* counters
C11_Witness ==
    /\ Fresh("UpdateLatestBucketsValue")
    /\ ret.err = "nil"
    /\ cb.Active
    /\ cb.Cache.Adapter = GoCache
    /\ Len(calls) = Len(cb.Buckets)
    /\ \A k \in TierKeys(cb, now) : k \in Live(store, now)
                                     /\ store[k].val = 10 + ret.arg

\* C12: if the increment for tier k fails during UpdateLatestBucketsValue,
\* the call returns the store's error unchanged, the increments already
\* applied to the tiers before k remain applied, and no increment is
\* attempted for any tier after k.
C12_FailedIncrementAbortsTheRest ==
    [][ \A a \in StoreAmounts :
          LET k == FirstFailing(cb, store, now, fault)
              before == {TierKey(cb, now, j) : j \in 1..(k - 1)}
          IN (Recorded(a) /\ cb.Active /\ k # 0) =>
               /\ ret'.err = IF fault = k THEN SomeError
                             ELSE ItemNotFound(TierKey(cb, now, k))
               /\ calls' = [j \in 1..k |->
                              [fn |-> "IncrementInt",
                               keys |-> <<TierKey(cb, now, j)>>]]
               /\ \A key \in before :
                    /\ key \in Live(store', now)
                    /\ store'[key].val =
                         WrapInt(CounterAt(store, now, key)
                                   + Cardinality({j \in 1..(k - 1) :
                                                    TierKey(cb, now, j) = key}) * a)
               /\ DOMAIN store' = DOMAIN store \cup before
               /\ \A key \in DOMAIN store \ before : store'[key] = store[key]
      ]_vars

\* the store failed the second of three increments: the head counter holds
\* the amount, the counters of the second and third tier do not exist
C12_Witness ==
    /\ Fresh("UpdateLatestBucketsValue")
    /\ ret.err = SomeError
    /\ fault = 2
    /\ Len(cb.Buckets) = 3
    /\ Len(calls) = 2
    /\ DOMAIN store = {TierKey(cb, now, 1)}
    /\ store[TierKey(cb, now, 1)].val = ret.arg

\* C13: UpdateLatestBucketsValue(amount) on an active breaker whose tier
\* counters do not yet exist in the store (a store that does not fail for
\* reasons of its own) succeeds and leaves each tier's counter present with
\* value amount and a time-to-live of cacheTTL.
C13_AbsentCountersAreCreatedWithCacheTTL ==
    [][ \A a \in StoreAmounts :
          ( /\ Recorded(a)
            /\ cb.Active
            /\ fault = 0
            /\ TierKeys(cb, now) \cap Live(store, now) = {} ) =>
              /\ ret'.err = "nil"
              /\ \A k \in TierKeys(cb, now) :
                   /\ k \in Live(store', now)
                   /\ store'[k].val = a
                   /\ store'[k].ttl = cb.CacheTTL
      ]_vars

\* C14: the cache wrapper's IncrementInt(key, val) over go-cache returns old
\* value + val and stores it when the key holds an integer, and returns the
\* error "Item <key> not found", leaving the store unchanged and the key not
\* created, when the key is absent.
C14_IncrementIntOverGoCache ==
    [][ ( /\ ret'.op = "Cache.IncrementInt"
          /\ now' = now
          /\ cb.Cache.Adapter = GoCache ) =>
            LET key == ret'.arg[1]
                val == ret'.arg[2]
            IN IF key \in Live(store, now)
               THEN /\ ret'.err = "nil"
                    /\ ret'.val = store[key].val + val
                    /\ store' = [store EXCEPT ![key].val = ret'.val]
               ELSE /\ key = TestKey => ret'.err = "Item test-key not found"
                    /\ ret'.err = ItemNotFound(key)
                    /\ store' = store
      ]_vars

\* the case of the test: 10 stored, incremented by 10
C14_Witness ==
    /\ Fresh("Cache.IncrementInt")
    /\ cb.Cache.Adapter = GoCache
    /\ ret.arg = <<TestKey, 10>>
    /\ ret.err = "nil"
    /\ ret.val = 20
    /\ store[TestKey].val = 20

----------------------------------------------------------------------------
(* The trip flag and the warning flag *)

\* the key a flag call is about
FlagKey(op) ==
    IF op \in {"GetTrip", "UpdateTrip"} THEN cb.TripKey ELSE cb.WarningAlertKey

\* C15: on an active breaker GetTrip (GetTripWarning) returns the cache-miss
\* error when the trip (warning) key is absent from the store and the stored
\* boolean with no error when it is present; an absent flag is never reported
\* as (false, no error).
C15_AbsentFlagIsACacheMiss ==
    (cb.Active /\ (Fresh("GetTrip") \/ Fresh("GetTripWarning"))) =>
      LET key == FlagKey(ret.op)
      IN IF key \in Live(store, now)
         THEN ret.err = "nil" /\ ret.val = store[key].val
         ELSE ret.err = "cache miss"

\* GetTripWarning has missed while the trip flag is stored
C15_Witness ==
    /\ cb.Active
    /\ Fresh("GetTripWarning")
    /\ cb.WarningAlertKey \notin DOMAIN store
    /\ cb.TripKey \in DOMAIN store
    /\ ret.err = "cache miss"

\* C16: on an active breaker UpdateTrip(b) overwrites or creates the trip
\* flag whatever it held, so that GetTrip returns (b_last, no error), b_last
\* being the argument of the most recent UpdateTrip, as long as the flag has
\* not expired; the same for UpdateTripWarning and GetTripWarning.
C16_ReadReturnsLastWrite ==
    /\ \A key \in DOMAIN flags :
         /\ key \in DOMAIN store
         /\ store[key].val = flags[key].val
         /\ store[key].exp = flags[key].at + store[key].ttl
    /\ (cb.Active /\ (Fresh("GetTrip") \/ Fresh("GetTripWarning"))) =>
         LET key == FlagKey(ret.op)
         IN (key \in DOMAIN flags /\ key \in Live(store, now)) =>
              (ret.val = flags[key].val /\ ret.err = "nil")

\* the trip flag was read a minute after the write that made it false, the
\* warning flag having been made true
C16_Witness ==
    /\ cb.Active
    /\ Fresh("GetTrip")
    /\ cb.TripKey \in DOMAIN flags
    /\ cb.WarningAlertKey \in DOMAIN flags
    /\ flags[cb.TripKey].val = FALSE
    /\ flags[cb.WarningAlertKey].val = TRUE
    /\ flags[cb.TripKey].at < now
    /\ ret.val = FALSE
    /\ ret.err = "nil"

\* C17: the trip flag written by UpdateTrip carries a time-to-live of
\* cacheTTL, the warning flag written by UpdateTripWarning a fixed
\* time-to-live of 12 hours whatever cacheTTL is; once its time-to-live has
\* elapsed without a further write, the flag reads as a cache miss.
C17_FlagTimesToLive ==
    /\ cb.TripKey \in DOMAIN flags =>
         store[cb.TripKey].ttl = cb.CacheTTL
    /\ cb.WarningAlertKey \in DOMAIN flags =>
         store[cb.WarningAlertKey].ttl = WarningAlertKeyExpiration
    /\ ( /\ cb.Active
         /\ Fresh("GetTrip")
         /\ cb.TripKey \in DOMAIN flags
         /\ now > flags[cb.TripKey].at + cb.CacheTTL ) => ret.err = "cache miss"
    /\ ( /\ cb.Active
         /\ Fresh("GetTripWarning")
         /\ cb.WarningAlertKey \in DOMAIN flags
         /\ now > flags[cb.WarningAlertKey].at + WarningAlertKeyExpiration )
         => ret.err = "cache miss"

\* what the reads of the flags and of the window return in a state
ReadTrip(c, st, t) == getBoolCache([c EXCEPT !.Active = TRUE], st, t, c.TripKey)

ReadTripWarning(c, st, t) ==
    getBoolCache([c EXCEPT !.Active = TRUE], st, t, c.WarningAlertKey)

ReadWindow(c, st, t) ==
    CalculateWindowValue([c EXCEPT !.Active = TRUE], st, t).val

\* the items of the store outside the set ks are the same before and after
SameOutside(ks) ==
    /\ DOMAIN store' \ ks = DOMAIN store \ ks
    /\ \A k \in DOMAIN store \ ks : store'[k] = store[k]

\* C18: UpdateTrip changes only the trip key, UpdateTripWarning only the
\* warning key and UpdateLatestBucketsValue only counter keys, so a call of
\* one of them does not alter what the reads of the others return.
C18_FlagsAndCountersAreIndependent ==
    [][ /\ (ret'.op = "UpdateTrip" /\ now' = now) =>
             /\ SameOutside({cb.TripKey})
             /\ ReadTripWarning(cb', store', now')
                  = ReadTripWarning(cb, store, now)
             /\ ReadWindow(cb', store', now') = ReadWindow(cb, store, now)
        /\ (ret'.op = "UpdateTripWarning" /\ now' = now) =>
             /\ SameOutside({cb.WarningAlertKey})
             /\ ReadTrip(cb', store', now') = ReadTrip(cb, store, now)
             /\ ReadWindow(cb', store', now') = ReadWindow(cb, store, now)
        /\ (ret'.op = "UpdateLatestBucketsValue" /\ now' = now) =>
             /\ SameOutside(TierKeys(cb, now))
             /\ {cb.TripKey, cb.WarningAlertKey} \cap TierKeys(cb, now) = {}
             /\ ReadTrip(cb', store', now') = ReadTrip(cb, store, now)
             /\ ReadTripWarning(cb', store', now')
                  = ReadTripWarning(cb, store, now)
      ]_vars

\* the warning flag has been written while the trip flag and counters are
\* stored
C18_Witness ==
    /\ cb.Active
    /\ Fresh("UpdateTripWarning")
    /\ calls # <<>>
    /\ cb.WarningAlertKey \in DOMAIN store
    /\ store[cb.WarningAlertKey].val = FALSE
    /\ cb.TripKey \in DOMAIN store
    /\ store[cb.TripKey].val = TRUE
    /\ PresentSum > 0

----------------------------------------------------------------------------
(* Thresholds and Go's int *)

\* C19: on an active breaker with fixed threshold IsExceedingThreshold is
\* monotonic: if it is true for amount a it is true for every a' >= a, and
\* raising a stored counter inside the window never turns a true result into
\* false, addition being Go's fixed-width int addition.
C19_ExceedingIsMonotonic ==
    (Fresh("IsExceedingThreshold") /\ cb.Active /\ ret.val = TRUE) =>
      /\ \A a \in QueryAmounts :
           a >= ret.arg => IsExceedingThreshold(cb, store, now, a).val
      /\ \A k \in Range(GenerateKeys(cb, now)) \cap Live(store, now) :
           \A d \in Amounts :
             IsExceedingThreshold(cb, [store EXCEPT ![k].val = AddInt(@, d)],
                                  now, ret.arg).val

\* C20 as stated: a freshly constructed breaker is active with threshold
\* MaxInt, and until SetThreshold is called IsExceedingThreshold(amount)
\* returns false for every non-negative amount and every store content
\* reachable through UpdateLatestBucketsValue.
C20_NeverExceedingUntilThresholdSet ==
    /\ ret.op = "NewCircuitBreaker" => (cb.Active /\ cb.Threshold = MaxInt)
    /\ ( /\ Fresh("IsExceedingThreshold")
         /\ cb.Active
         /\ cb.Threshold = MaxInt
         /\ ret.arg >= 0 ) => ret.val = FALSE

\* C20, amended: a freshly constructed breaker is active with threshold
\* MaxInt, and until SetThreshold is called IsExceedingThreshold(amount)
\* returns true exactly when window value + amount, in Go's int addition,
\* equals MaxInt; so it returns false whenever window value + amount < MaxInt
\* and true for amount = MaxInt on an empty window.
C20_ExceedingOnlyAtMaxIntUntilThresholdSet ==
    /\ ret.op = "NewCircuitBreaker" => (cb.Active /\ cb.Threshold = MaxInt)
    /\ ( /\ Fresh("IsExceedingThreshold")
         /\ cb.Active
         /\ cb.Threshold = MaxInt ) =>
           /\ ret.val = (AddInt(PresentSum, ret.arg) = MaxInt)
           /\ PresentSum + ret.arg < MaxInt => ret.val = FALSE
           /\ (PresentSum = 0 /\ ret.arg = MaxInt) => ret.val = TRUE

\* the threshold was never set, counters are recorded, and an amount below
\* the threshold is not exceeding
C20_Witness ==
    /\ Fresh("IsExceedingThreshold")
    /\ cb.Active
    /\ cb.Threshold = MaxInt
    /\ Len(log) > 0
    /\ PresentSum > 0
    /\ ret.arg = 1
    /\ ret.val = FALSE

----------------------------------------------------------------------------
(* Construction and configuration *)

\* the sequences that hold the elements of s in some order
PermSeqs(s) ==
    {[i \in 1..Len(s) |-> s[f[i]]] : f \in Permutations(1..Len(s))}

Descending(bs) ==
    \A i \in 1..(Len(bs) - 1) : bs[i].Duration >= bs[i + 1].Duration

\* the breaker NewCircuitBreaker returns for the configuration of c with the
\* bucket list bs
Rebuilt(c, bs) ==
    NewCircuitBreaker(c.Cache, bs, c.CacheTTL, c.FeatureName, c.WindowDuration)

ExplicitDefault ==
    <<NewBucket(4 * Hour), NewBucket(Hour), NewBucket(5 * Minute),
      NewBucket(Minute)>>

\* C21: NewCircuitBreaker yields the tiers in descending duration; every
\* permutation of the same bucket list yields the same tiers and so the same
\* GenerateKeys output at every instant; and the empty list yields the
\* breaker that the list {4h, 1h, 5m, 1m} yields.
C21_ConstructionNormalisesTiers ==
    /\ Descending(cb.Buckets)
    /\ \A p \in PermSeqs(cb.Buckets) :
         /\ Rebuilt(cb, p).Buckets = cb.Buckets
         /\ Fresh("GenerateKeys") =>
              ret.val = GenerateKeys(Rebuilt(cb, p), now)
    /\ Rebuilt(cb, <<>>) = Rebuilt(cb, ExplicitDefault)
    /\ (Fresh("GenerateKeys") /\ cb.Buckets = Rebuilt(cb, <<>>).Buckets) =>
         \A p \in PermSeqs(ExplicitDefault) :
            ret.val = GenerateKeys(Rebuilt(cb, p), now)

\* GenerateKeys has returned more than the head key for four tiers that were
\* given in ascending order
C21_Witness ==
    /\ Fresh("GenerateKeys")
    /\ Len(ret.val) > 1
    /\ cb.Buckets = Rebuilt(cb, FourTiers).Buckets
    /\ FourTiers # cb.Buckets
    /\ ret.val = GenerateKeys(Rebuilt(cb, FourTiers), now)

\* the list bs without the buckets whose duration an earlier bucket has
RECURSIVE Dedup(_)
Dedup(bs) ==
    IF bs = <<>> THEN <<>>
    ELSE LET rest == Dedup(SubSeq(bs, 1, Len(bs) - 1))
             last == bs[Len(bs)]
         IN IF \E i \in 1..Len(rest) : rest[i].Duration = last.Duration
            THEN rest ELSE Append(rest, last)

\* the store after the recorded updates lg[i..] made through the breaker c
RECURSIVE Replay(_, _, _, _)
Replay(c, st, lg, i) ==
    IF i > Len(lg) THEN st
    ELSE Replay(c,
                UpdateLatestBucketsValue(c, st, lg[i].t, lg[i].amount, 0).store,
                lg, i + 1)

\* the breaker configured as cb but with the bucket list deduplicated, and
\* the store the same updates leave through it
Deduplicated == [Rebuilt(cb, Dedup(cb.Buckets)) EXCEPT !.Threshold = cb.Threshold]
DeduplicatedStore == Replay(Deduplicated, EmptyStore, log, 1)

\* C22: after any sequence of updates, a breaker whose bucket list names a
\* duration twice reports the CalculateWindowValue and IsExceedingThreshold
\* results of the breaker configured with the list deduplicated.
C22_DuplicateTiersAreHarmless ==
    /\ Fresh("CalculateWindowValue") =>
         ret.val = CalculateWindowValue(Deduplicated, DeduplicatedStore, now).val
    /\ Fresh("IsExceedingThreshold") =>
         ret.val = IsExceedingThreshold(Deduplicated, DeduplicatedStore, now,
                                        ret.arg).val

\* the counter keys the last UpdateLatestBucketsValue incremented, per tier
UpdatedKey(j) == calls[j].keys[1]

\* C25: no two buckets of a constructed breaker with different durations
\* have the same name, and so no two such tiers address the same counter key.
C25_BucketNamesIdentifyDurations ==
    \A i, j \in 1..Len(cb.Buckets) :
       cb.Buckets[i].Duration # cb.Buckets[j].Duration =>
          /\ cb.Buckets[i].Name # cb.Buckets[j].Name
          /\ ( /\ Fresh("UpdateLatestBucketsValue")
               /\ Len(calls) = Len(cb.Buckets) ) =>
                UpdatedKey(i) # UpdatedKey(j)

\* a breaker constructed anew over the same store from the bucket list bs
\* and the configuration of cb, with the settings of cb applied to it
Recreated(bs) ==
    [Rebuilt(cb, bs) EXCEPT !.Active = cb.Active,
                            !.Threshold = cb.Threshold,
                            !.WarningThreshold = cb.WarningThreshold]

\* the bucket lists cb can have been constructed from
SameBuckets ==
    {cb.Buckets} \cup (IF cb.Buckets = DefaultBucket THEN {<<>>} ELSE {})

Others ==
    {NewCircuitBreaker(cb.Cache, <<>>, cb.CacheTTL, fw[1], fw[2]) :
       fw \in {<<"other", cb.WindowDuration>>,
               <<cb.FeatureName, Hour>>,
               <<cb.FeatureName, cb.WindowDuration + 30 * Minute>>}}

\* C24: no operation through one breaker changes the window value, the
\* threshold check, the trip or the warning observed through a breaker on
\* the same store with another feature name or another window duration.
C24_OtherBreakersAreUndisturbed ==
    [][\A o \in Others :
          /\ ReadWindow(o, store', now) = ReadWindow(o, store, now)
          /\ IsExceedingThreshold([o EXCEPT !.Threshold = 3], store', now, 1).val
               = IsExceedingThreshold([o EXCEPT !.Threshold = 3], store, now,
                                      1).val
          /\ ReadTrip(o, store', now) = ReadTrip(o, store, now)
          /\ ReadTripWarning(o, store', now) = ReadTripWarning(o, store, now)]_vars

----------------------------------------------------------------------------
(* Concurrent callers *)

\* what the counter of bucket j held before any caller: the stored counters
\* are the ones with a time to live of an hour
Before(j) ==
    LET k == TierKey(cb, now, j)
    IN IF k \in DOMAIN store /\ store[k].ttl = Hour THEN 10 ELSE 0

\* the sum of the amounts of the callers that have returned
RECURSIVE SumReturned(_)
SumReturned(i) == IF i = 0 THEN 0 ELSE log[i].amount + SumReturned(i - 1)

AllReturned ==
    /\ inflight = NoCallers
    /\ Len(log) > 0
    /\ \A i \in 1..Len(log) : log[i].failedAt = 0

\* C26: with an atomic store increment, once the concurrent callers of
\* UpdateLatestBucketsValue have all returned without error within one
\* minute, under every interleaving of their increments the counter of each
\* tier has grown by exactly the sum of their amounts.
C26_ConcurrentUpdatesLoseNothing ==
    AllReturned =>
       \A j \in 1..Len(cb.Buckets) :
          CounterAt(store, now, TierKey(cb, now, j))
             = Before(j) + SumReturned(Len(log))

\* all callers have returned without error and the second to enter returned
\* first
C26_Witness ==
    /\ AllReturned
    /\ Len(log) = MaxCallers
    /\ \E i, j \in 1..Len(log) : i < j /\ log[i].p > log[j].p
    /\ \E i, j \in 1..Len(log) : log[i].amount # log[j].amount

----------------------------------------------------------------------------
(* The cache wrapper *)

\* the requested keys the adapter holds
PresentOf(ks) == Range(ks) \cap Live(store, now)

\* cache.GetMulti has returned the map of exactly the requested keys that are
\* present, each with its value
GetMultiHoldsThePresentKeys ==
    Fresh("Cache.GetMulti") =>
       /\ DOMAIN ret.val.m = PresentOf(ret.arg)
       /\ \A k \in PresentOf(ret.arg) : ret.val.m[k] = store[k].val

\* C27: the store's GetMulti returns a map of exactly the requested keys
\* that are present, and CalculateWindowValue on an active breaker returns
\* the sum of the values present, 0 when there are none.
C27_WindowValueSumsWhatGetMultiReturns ==
    /\ GetMultiHoldsThePresentKeys
    /\ (Fresh("CalculateWindowValue") /\ cb.Active) =>
          ret.err = "nil" /\ ret.val = PresentSum

\* C28: cache.Get(key) returns the value and no error when the adapter holds
\* the key, returns nil and the cache-miss error exactly when the adapter
\* reports the key as not found, and leaves the store as it was.
C28_GetReportsAMissAndWritesNothing ==
    /\ [](Fresh("Cache.Get") =>
            /\ ret.err = IF ret.arg \in Live(store, now)
                         THEN "nil" ELSE "cache miss"
            /\ ret.err = "nil" => ret.val = store[ret.arg].val
            /\ ret.err # "nil" => ret.val = NoValue)
    /\ [][(ret'.op = "Cache.Get" /\ now' = now) => store' = store]_vars

\* Get has reported a miss for a key whose item is stored but has expired
C28_Witness ==
    /\ Fresh("Cache.Get")
    /\ ret.err = "cache miss"
    /\ ret.arg \in DOMAIN store
    /\ \E k \in Live(store, now) : k # ret.arg

\* C30: with the breaker composed with the repository's cache (NewCache),
\* CalculateWindowValue on an active breaker returns an integer whatever the
\* store holds: the type assertion on the value of GetMulti never panics.
C30_WindowValueNeverPanics ==
    (Fresh("CalculateWindowValue") /\ cb.Active /\ cb.Cache.Results = MapOfAny)
       => ret.err = "nil"

----------------------------------------------------------------------------
(* The settings *)

Setters == {"SetActive", "SetThreshold", "SetWarningThreshold"}

\* the breaker a setter leaves: only the field of the setter op differs from
\* c, and holds the argument
AfterSetter(c, op, arg) ==
    IF op = "SetActive" THEN [c EXCEPT !.Active = arg]
    ELSE IF op = "SetThreshold" THEN [c EXCEPT !.Threshold = arg]
    ELSE [c EXCEPT !.WarningThreshold = arg]

\* C29: SetActive, SetThreshold and SetWarningThreshold change only their own
\* field and do not touch the store; the setting stays until the next setter
\* and is what the following operations use; GetActive returns the argument
\* of the most recent SetActive, true if there was none.
C29_SettersChangeOnlyTheirField ==
    /\ [](/\ ret.op = "NewCircuitBreaker" => cb.Active
          /\ Fresh("GetActive") => ret.val = cb.Active
          /\ Fresh("SetActive") => cb.Active = ret.arg
          /\ Fresh("SetThreshold") => cb.Threshold = ret.arg
          /\ Fresh("SetWarningThreshold") => cb.WarningThreshold = ret.arg
          /\ Fresh("IsExceedingThreshold") =>
               ret.val = (cb.Active /\ AddInt(PresentSum, ret.arg) >= cb.Threshold)
          /\ Fresh("IsExceedingWarningThreshold") =>
               ret.val = ( /\ cb.Active
                           /\ AddInt(PresentSum, ret.arg) >= cb.WarningThreshold ))
    /\ [][IF ret'.op \in Setters
          THEN /\ cb' = AfterSetter(cb, ret'.op, ret'.arg)
               /\ store' = store
               /\ calls' = <<>>
          ELSE cb' = cb]_vars

\* GetActive has returned false on a breaker whose two thresholds have been
\* set to different values
C29_Witness ==
    /\ Fresh("GetActive")
    /\ ret.val = FALSE
    /\ cb.Threshold = 2
    /\ cb.WarningThreshold = 3
    /\ Len(log) > 0

----------------------------------------------------------------------------
(* The usage of the README *)

\* C31: with every caller running IsExceedingThreshold(a) and, only if it
\* returned false, UpdateLatestBucketsValue(a) as one step, a >= 0, the
\* default tiers, a window of at least 4h and a fixed threshold, the value
\* CalculateWindowValue would return is below the threshold in every
\* reachable state, also as the clock advances.
C31_GuardedWindowStaysBelowThreshold ==
    CalculateWindowValue(cb, store, now).val < cb.Threshold

\* C32: when two callers each run IsExceedingThreshold(a) and, only if it
\* returned false, UpdateLatestBucketsValue(a), under every interleaving of
\* their steps the window value after both have finished is below the
\* threshold.
C32_InterleavedCallersStayBelowThreshold ==
    (inflight = NoCallers /\ Len(log) = Cardinality(Pair)) =>
       CalculateWindowValue(cb, store, now).val < cb.Threshold

\* what CalculateWindowValue returns now when the update in flight has done
\* nothing: the window over the store that the earlier updates alone leave
WithoutUpdate ==
    LET earlier == SelectSeq(log, LAMBDA e : e.p = 0)
    IN CalculateWindowValue(cb, Replay(cb, EmptyStore, earlier, 1), now).val

\* the keys the last CalculateWindowValue read that the caller in flight
\* increments
Touched == Range(calls[1].keys) \cap TierKeys(cb, inflight[1].t)

ReadDuringUpdate ==
    /\ Fresh("CalculateWindowValue")
    /\ 1 \in DOMAIN inflight

\* C33 as stated: a CalculateWindowValue that runs while one
\* UpdateLatestBucketsValue(a) is in flight returns the value without a or
\* the value with a added once, and among the keys it reads only a key of
\* the coarsest tier is one the update increments.
C33_OnlyCoarsestKeyIsTouched ==
    ReadDuringUpdate =>
       /\ ret.val \in {WithoutUpdate,
                        AddInt(WithoutUpdate, inflight[1].amount)}
       /\ Touched \subseteq {TierKey(cb, inflight[1].t, 1)}

\* C33, amended: a CalculateWindowValue that runs while one
\* UpdateLatestBucketsValue(a) is in flight returns the value without a or
\* the value with a added once: among the keys it reads at most one is a key
\* the update increments.
C33_ReadSeesUpdateOnceOrNotAtAll ==
    ReadDuringUpdate =>
       /\ ret.val \in {WithoutUpdate,
                        AddInt(WithoutUpdate, inflight[1].amount)}
       /\ Cardinality(Touched) <= 1

\* the window has been read with the amount in it through a key of the 1h
\* tier, by a reader whose clock is in the 4h bucket after the updater's
C33_Witness ==
    /\ ReadDuringUpdate
    /\ Truncate(inflight[1].t, 4 * Hour) < Truncate(now, 4 * Hour)
    /\ Touched = {TierKey(cb, inflight[1].t, 2)}
    /\ ret.val = WithoutUpdate + inflight[1].amount
    /\ WithoutUpdate = 2

(* The reads *)

ReadOps == {"GenerateKeys", "CalculateWindowValue", "IsExceedingThreshold",
            "GetTrip", "GetTripWarning"}

StoreReads == {"Get", "GetMulti"}

\* C34: GenerateKeys, CalculateWindowValue, IsExceedingThreshold, GetTrip and
\* GetTripWarning call only the reading functions of the store and leave the
\* store and the breaker as they are; an IsExceedingThreshold that returns
\* true writes no trip flag, and what a read of the trip flag gives changes
\* only in a step of UpdateTrip or of the clock.
C34_ReadsDoNotWrite ==
    /\ [](\A op \in ReadOps : Fresh(op) =>
             \A i \in 1..Len(calls) : calls[i].fn \in StoreReads)
    /\ [][(ret'.op \in ReadOps /\ now' = now)
             => (store' = store /\ cb' = cb)]_vars
    /\ [][(ReadTrip(cb', store', now') # ReadTrip(cb, store, now))
             => (ret'.op = "UpdateTrip" \/ now' > now)]_vars

\* IsExceedingThreshold has returned true from a read of the store, and the
\* trip flag is not set
C34_Witness ==
    /\ Fresh("IsExceedingThreshold")
    /\ ret.val = TRUE
    /\ calls # <<>>
    /\ ReadTrip(cb, store, now).err = "cache miss"

(* Termination *)

\* C35: for every engine NewCircuitBreaker constructs, bucket durations of
\* zero included, and every instant, a GenerateKeys call that has been
\* entered returns.
C35_GenerateKeysTerminates == (loop.pc = "run") ~> (loop.pc = "idle")

(* Errors of the store's Get *)

\* the flag key a read of the flags asks the store for
FlagKeyOf(op) == IF op = "GetTrip" THEN cb.TripKey ELSE cb.WarningAlertKey

\* C36: when GetTrip or GetTripWarning has asked the store (the breaker was
\* active) and the store's Get returns an error for the flag key, whichever
\* error it is, the call has returned false with the cache-miss error.
C36_EveryGetErrorIsCacheMiss ==
    \A op \in {"GetTrip", "GetTripWarning"} :
       ( /\ Fresh(op)
         /\ calls # <<>>
         /\ StoreGet(cb.Cache, store, now, FlagKeyOf(op)).err # "nil" )
         => (ret.val = FALSE /\ ret.err = "cache miss")

\* GetTrip has returned the cache-miss error from a store that holds the
\* flag and whose Get failed with an error of its own
C36_Witness ==
    /\ Fresh("GetTrip")
    /\ calls # <<>>
    /\ cb.TripKey \in Live(store, now)
    /\ StoreGet(cb.Cache, store, now, cb.TripKey).err = GetFailure
    /\ ret.err = "cache miss"

====
